---- MODULE Spec2Model ----
(***************************************************************************)
(* A model of the platform-wrapper code of the video-streaming client:     *)
(*   - the fullscreen / orientation sequencing routines                    *)
(*     (src/src/hooks/useImmersiveMode.tsx, useNativeStatusBar.tsx),       *)
(*   - the thin wrappers around the in-app browser and the ad SDK          *)
(*     (useExoPlayer.tsx, useAuth.tsx, services/admobService.ts),          *)
(*   - the membership purchase handlers (MobileVIPPanel.tsx, Subscriptions)*)
(*   - the settings-driven ad service with its module-level cache          *)
(*     (src/unnamed/part_006) and the global fullscreen flag               *)
(*     (useFullscreenState.tsx),                                           *)
(*   - the viewport-driven native banner slot (src/unnamed/part_005).      *)
(* Each subsystem has its own specification over the shared variables; the *)
(* variables of the other subsystems stay at their initial values.         *)
(***************************************************************************)
EXTENDS Integers, Sequences, FiniteSets, TLC

VARIABLES
    \* ---- device / browser (constant during a run) ----
    platform,          \* Capacitor.getPlatform(): "android" | "ios" | "web"
    apis,              \* fullscreen API families the WebView implements
    \* ---- native chrome ----
    FullscreenPlugin,  \* useNativeStatusBar.tsx:10, module-level plugin handle (loaded?)
    inFullscreen,      \* the document is in web fullscreen
    statusBarHidden,   \* system bars hidden
    orientation,       \* "portrait" | "landscape"
    \* ---- the wrapper operation in progress ----
    opName,            \* which wrapper runs (or ran last)
    opPc,              \* its position
    opHasCb,           \* whether the caller passed an orientation callback
    log,               \* collaborator calls of this operation, in order
    outcome,           \* "none" | "running" | "returned" | "threw"
    admobInitialized,  \* services/admobService.ts:18, module-level isInitialized
    \* ---- membership purchase (MobileVIPPanel.tsx, Subscriptions page) ----
    user,                \* useAuth().user: NoUser or a user id
    price,               \* membership_plans.price by plan id
    panelOpen,           \* MobileVIPPanel prop open
    selectedPlan,        \* MobileVIPPanel.tsx:32
    walletBalance,       \* MobileVIPPanel.tsx:33
    processingPurchase,  \* MobileVIPPanel.tsx:34
    panelRefetch,        \* fetchWalletBalance / checkCurrentMembership started by handlePurchase
    toast,               \* title of the last toast shown by either screen
    confirmPlanDetails,  \* Subscriptions (part_009:32)
    confirmDialogOpen,   \* Subscriptions (part_009:31)
    pageSelectedPlan,    \* Subscriptions selectedPlan (part_009:29)
    pageWalletBalance,   \* Subscriptions walletBalance (part_009:33)
    rpcInFlight,         \* purchase RPCs awaiting their answer
    lastRpc,             \* the last purchase RPC issued, with the state it was issued from
    purchaseScreen,      \* which purchase screen is mounted: "panel" | "page"
    \* ---- dashboard rows (remote) ----
    dbEnabled,           \* app_ad_settings.global_settings.enabled
    dbTestMode,          \* app_ad_settings.global_settings.test_mode
    dbAds,               \* active app_ads rows for this platform
    everEnabled,         \* history: the dashboard has had enabled = true in this run
    \* ---- the settings-driven ad service (src/unnamed/part_006) ----
    isInitialized,       \* part_006:19, module-level
    cachedSettings,      \* part_006:20, module-level
    tasks,               \* the service calls in progress, by slot
    slots,               \* how many calls may overlap in this run
    lastSdkCall,         \* the last call that reached the ad SDK
    initsNotFailed,      \* history: AdMob.initialize calls made and not (yet) failed
    fetchEvent,          \* whether this step completed a fetchSettings, and how
    \* ---- screens and the global fullscreen flag (useFullscreenState.tsx) ----
    screenKind,          \* the mounted screen: "home" | "watch"
    screenEpoch,         \* flips whenever a screen unmounts and the next one mounts
    globalIsFullscreen,  \* useFullscreenState.tsx:4, module-level
    playerIsFullscreen,  \* useIPadVideoFullscreen isFullscreen (useExoPlayer.tsx:128)
    subscriberValue,     \* useFullscreenState isFullscreen of the mounted subscriber
    cacheOwner,          \* history: which screen wrote cachedSettings last
    initOwner,           \* history: which screen wrote isInitialized last
    globalOwner,         \* history: which screen wrote globalIsFullscreen last
    crossRead,           \* history: an operation read a value an unmounted screen wrote
    \* ---- the banner slot component (src/unnamed/part_005) ----
    pluginAvailable,     \* getAdMobPlugin() finds the plugin
    dbSlotAd,            \* the app_ads row of the slot's placement: "none" | "live" | "test"
    dbWebAd,             \* the ads table has a row with ad_code for the placement
    slotVisible,         \* the slot's place on the page intersects the viewport
    slotMounted,
    slotIsNative,        \* state isNative
    isLoading,           \* state isLoading
    bannerShown,         \* state bannerShown
    webAdCode,           \* state webAdCode (set or null)
    adConfig,            \* state adConfig
    isInView,            \* state isInView
    observerActive,      \* observerRef.current observes the slot element
    slotPc,              \* the fetch in progress
    slotAdsData,         \* adsData held by fetchAdConfig between its queries
    slotPending,         \* the SDK calls of the slot not yet settled
    \* ---- the banner slot built on the useAdMob hook (NativeBannerAdSlot.tsx) ----
    hookMounted,
    hookPlacement,       \* prop placement
    hookConfig,          \* useAdMob state config
    hookInitialized,     \* useAdMob state isInitialized
    isBannerVisible,     \* useAdMob state isBannerVisible
    shouldShow,          \* slot state shouldShow
    hookPc,              \* the settings fetch in progress
    hookSettingsData,    \* settingsData held between the two queries
    hookCleanup,         \* the effect cleanup: "none", or the isBannerVisible it closed over
    hookPending,         \* SDK calls not yet settled, with whether their caller is still mounted
    sdkBanner,           \* the SDK has a banner on screen
    \* ---- the OAuth deep link listener (useAuth.tsx) ----
    deepLink,            \* the url of the appUrlOpen event being handled
    linkPc,              \* "idle" | "setSession" | "Browser.close"
    linkCalls,           \* the collaborator calls made for this event
    \* ---- useIPadVideoFullscreen.toggleFullscreen (useExoPlayer.tsx) ----
    hasContainer,        \* containerRef.current is set
    isTransitioning,     \* state isTransitioning
    renderedTransitioning, \* the isTransitioning the rendered toggleFullscreen closed over
    renderedFullscreen,  \* the isFullscreen the rendered toggleFullscreen closed over
    toggles,             \* the toggleFullscreen calls in progress, by slot
    lastToggle,          \* whether this step was a toggleFullscreen call, and what it did
    \* ---- Layout and the auth context (Layout.tsx, useAuth.tsx) ----
    authLoading,         \* AuthProvider state loading
    authUser,            \* AuthProvider state user is set
    guestMode,           \* localStorage guestMode === 'true'
    compact,             \* isMobile || isTablet
    route,               \* "page" (a route inside Layout) | "/auth"
    layoutView,          \* what Layout rendered last
    layoutWallet,        \* Layout state walletBalance
    layoutFetch,         \* the wallet query of Layout is in flight
    signOutPc,           \* handleSignOut: "idle" | "signOut"
    lastNavigate,        \* the navigate() call of this step, if any
    \* ---- the fullscreen cell and its subscribers (useFullscreenState.tsx) ----
    listeners,           \* the module-level Set listeners, by subscriber
    subPhase,            \* per useFullscreenState component: "unmounted" | "rendered" | "subscribed"
    subValue,            \* per useFullscreenState component: its isFullscreen state
    notified,            \* the listeners called by the setGlobalFullscreenState of this step
    lastPublish,         \* the value passed to setGlobalFullscreenState in this step, if any
    \* ---- outcome of the panel's purchase RPC (MobileVIPPanel.tsx) ----
    rpcOutcome,          \* how the panel's RPC that returned last came back
    \* ---- getAdUnit (part_006, useAdMob.tsx) ----
    unitCall,            \* the arguments of the last getAdUnit call since the cache was set
    unitResult,          \* what that call returned
    \* ---- DesktopPaginatedGrid ----
    currentPage,         \* the page search parameter
    gridTablet,          \* useIsTablet()
    content,             \* state content: which page of which size it holds
    totalPages,          \* state totalPages
    gridLoading,         \* state loading
    gridFetches,         \* the fetchContent runs in progress, by what they asked for
    gridLanded           \* the response for what is asked now has been applied

nativeVars == <<platform, apis, FullscreenPlugin, inFullscreen, statusBarHidden,
                orientation, opName, opPc, opHasCb, log, outcome, admobInitialized>>

purchaseVars == <<user, price, panelOpen, selectedPlan, walletBalance, processingPurchase,
                  panelRefetch, toast, confirmPlanDetails, confirmDialogOpen,
                  pageSelectedPlan, pageWalletBalance, rpcInFlight, lastRpc,
                  purchaseScreen>>

dbVars == <<dbEnabled, dbTestMode, dbAds, everEnabled>>

adsVars == <<isInitialized, cachedSettings, tasks, slots, lastSdkCall, initsNotFailed,
             fetchEvent>>

screenVars == <<screenKind, screenEpoch, globalIsFullscreen, playerIsFullscreen,
                subscriberValue, cacheOwner, initOwner, globalOwner, crossRead>>

slotVars == <<pluginAvailable, dbSlotAd, dbWebAd, slotVisible, slotMounted, slotIsNative,
              isLoading, bannerShown, webAdCode, adConfig, isInView, observerActive,
              slotPc, slotAdsData, slotPending>>

hookVars == <<hookMounted, hookPlacement, hookConfig, hookInitialized, isBannerVisible,
              shouldShow, hookPc, hookSettingsData, hookCleanup, hookPending, sdkBanner>>

linkVars == <<deepLink, linkPc, linkCalls>>

toggleVars == <<hasContainer, isTransitioning, renderedTransitioning, renderedFullscreen,
                toggles, lastToggle>>

layoutVars == <<authLoading, authUser, guestMode, compact, route, layoutView, layoutWallet,
                layoutFetch, signOutPc, lastNavigate>>

cellVars == <<listeners, subPhase, subValue, notified, lastPublish>>

outcomeVars == <<rpcOutcome>>

\* State of the remaining components.
unitVars == <<unitCall, unitResult>>

gridVars == <<currentPage, gridTablet, content, totalPages, gridLoading, gridFetches,
              gridLanded>>

pageVars == <<outcomeVars, unitVars, gridVars>>

uiVars == <<toggleVars, layoutVars, cellVars, pageVars>>

appVars == <<dbVars, adsVars, screenVars, slotVars, hookVars, linkVars, uiVars>>

vars == <<nativeVars, purchaseVars, appVars>>

Platforms == {"android", "ios", "web"}

\* The fullscreen API families a WebView may implement (first match wins in the code).
ApiSets == {{"std", "webkit"}, {"std"}, {"webkit"}, {"moz"}, {"ms"}, {}}

\* Capacitor.isNativePlatform()
isNative == platform # "web"

Ev(c, ok) == [call |-> c, ok |-> ok]

\* document.fullscreenElement is only maintained by the standard API
fullscreenElement == inFullscreen /\ "std" \in apis

(***************************************************************************)
(* enterVideoFullscreen / exitVideoFullscreen                              *)
(***************************************************************************)

\* The control flow of enterVideoFullscreen with the immersive step first
\* (the ordering the module header warns against).
EnterNext_HideFirst(pc, native, hasCb) ==
    CASE pc = "start"   -> IF native THEN "hide" ELSE "fs"
      [] pc = "hide"    -> IF hasCb THEN "cb" ELSE "delay50"
      [] pc = "cb"      -> "settle"
      [] pc = "settle"  -> "delay50"
      [] pc = "delay50" -> "fs"
      [] OTHER          -> "done"

\* The control flow of enterVideoFullscreen with the callback invoked on every
\* platform (the isNative test only guarding the status bar).
EnterNext_CbEverywhere(pc, native, hasCb) ==
    CASE pc = "start"   -> IF hasCb THEN "cb" ELSE IF native THEN "hide" ELSE "fs"
      [] pc = "cb"      -> "settle"
      [] pc = "settle"  -> IF native THEN "hide" ELSE "fs"
      [] pc = "hide"    -> "delay50"
      [] pc = "delay50" -> "fs"
      [] OTHER          -> "done"

\* The position enterVideoFullscreen reaches after the step at pc returned normally.
EnterNext(pc, native, hasCb) ==
    CASE pc = "start"   -> IF native THEN (IF hasCb THEN "cb" ELSE "hide") ELSE "fs"
      [] pc = "cb"      -> "settle"
      [] pc = "settle"  -> "hide"
      [] pc = "hide"    -> "delay50"
      [] pc = "delay50" -> "fs"
      [] OTHER          -> "done"

\* exitVideoFullscreen with the orientation reset before the status bar is shown.
ExitNext_CbFirst(pc, native, hasCb) ==
    CASE pc = "start"    -> "exitFs"
      [] pc = "exitFs"   -> IF native THEN "delay100" ELSE "done"
      [] pc = "delay100" -> IF hasCb THEN "delay50x" ELSE "show"
      [] pc = "delay50x" -> "cbUnlock"
      [] pc = "cbUnlock" -> "show"
      [] OTHER           -> "done"

\* The position exitVideoFullscreen reaches after the step at pc completed.
ExitNext(pc, native, hasCb) ==
    CASE pc = "start"    -> "exitFs"
      [] pc = "exitFs"   -> IF native THEN "delay100" ELSE "done"
      [] pc = "delay100" -> "show"
      [] pc = "show"     -> IF hasCb THEN "delay50x" ELSE "done"
      [] pc = "delay50x" -> "cbUnlock"
      [] OTHER           -> "done"

\* Position after a completed step of the running operation.
NextPc(pc) ==
    IF opName = "enterVideoFullscreen" THEN EnterNext(pc, isNative, opHasCb)
    ELSE ExitNext(pc, isNative, opHasCb)

\* Which request method enterVideoFullscreen picks on the container.
RequestCall(a) ==
    IF "std" \in a THEN "requestFullscreen(navigationUI:hide)"
    ELSE IF "webkit" \in a THEN "webkitRequestFullscreen"
    ELSE IF "moz" \in a THEN "mozRequestFullScreen"
    ELSE IF "ms" \in a THEN "msRequestFullscreen"
    ELSE "none"

\* Which exit method exitVideoFullscreen picks on the document.
ExitCall(fsElem, a) ==
    IF fsElem THEN "exitFullscreen"
    ELSE IF "webkit" \in a THEN "webkitExitFullscreen"
    ELSE IF "moz" \in a THEN "mozCancelFullScreen"
    ELSE IF "ms" \in a THEN "msExitFullscreen"
    ELSE "none"

FsRequestCalls == {"requestFullscreen(navigationUI:hide)", "requestFullscreen()",
                   "webkitRequestFullscreen", "mozRequestFullScreen",
                   "msRequestFullscreen"}

FsExitCalls == {"exitFullscreen", "webkitExitFullscreen", "mozCancelFullScreen",
                "msExitFullscreen"}

\* A fullscreen request that is re-issued after every failure.
FsAfterFailure_Loop(pc, a) ==
    IF "std" \in a THEN "fsFallback" ELSE "done"

\* Where STEP 4 goes after a failed fullscreen request: only the first request of the
\* standard API has a fallback (the inner catch); any other failure ends in the outer
\* catch.
FsAfterFailure(pc, a) ==
    IF pc = "fs" /\ "std" \in a THEN "fsFallback" ELSE "done"

Idle == opPc = "done"

\* A caller starts enterVideoFullscreen(container, onOrientationLocked?).
CallEnterVideoFullscreen(hasCb) ==
    /\ Idle
    /\ opName' = "enterVideoFullscreen"
    /\ opHasCb' = hasCb
    /\ opPc' = EnterNext("start", isNative, hasCb)
    /\ log' = <<>>
    /\ outcome' = "running"
    /\ UNCHANGED <<platform, apis, FullscreenPlugin, inFullscreen, statusBarHidden,
                   orientation, admobInitialized>>
    /\ UNCHANGED <<purchaseVars, appVars>>

\* A caller starts exitVideoFullscreen(onOrientationUnlocked?).
CallExitVideoFullscreen(hasCb) ==
    /\ Idle
    /\ opName' = "exitVideoFullscreen"
    /\ opHasCb' = hasCb
    /\ opPc' = ExitNext("start", isNative, hasCb)
    /\ log' = <<>>
    /\ outcome' = "running"
    /\ UNCHANGED <<platform, apis, FullscreenPlugin, inFullscreen, statusBarHidden,
                   orientation, admobInitialized>>
    /\ UNCHANGED <<purchaseVars, appVars>>

\* await onOrientationLocked() / await onOrientationUnlocked(): outside any try block,
\* so a rejection leaves the wrapper.
OrientationCallback(ok) ==
    /\ opPc \in {"cb", "cbUnlock"}
    /\ log' = Append(log, Ev(IF opPc = "cb" THEN "onOrientationLocked"
                             ELSE "onOrientationUnlocked", ok))
    /\ IF ok
       THEN /\ orientation' = IF opPc = "cb" THEN "landscape" ELSE "portrait"
            /\ opPc' = NextPc(opPc)
            /\ outcome' = IF NextPc(opPc) = "done" THEN "returned" ELSE outcome
       ELSE /\ orientation' = orientation
            /\ opPc' = "done"
            /\ outcome' = "threw"
    /\ UNCHANGED <<platform, apis, FullscreenPlugin, inFullscreen, statusBarHidden,
                   opName, opHasCb, admobInitialized>>
    /\ UNCHANGED <<purchaseVars, appVars>>

\* await new Promise(resolve => setTimeout(resolve, n))
Delay ==
    /\ opPc \in {"settle", "delay50", "delay100", "delay50x"}
    /\ opPc' = NextPc(opPc)
    /\ UNCHANGED <<platform, apis, FullscreenPlugin, inFullscreen, statusBarHidden,
                   orientation, opName, opHasCb, log, outcome, admobInitialized>>
    /\ UNCHANGED <<purchaseVars, appVars>>

\* hideStatusBar() / showStatusBar(): every failure inside is caught and logged.
\*   importOk: the dynamic import of the fullscreen plugin succeeds
\*   callOk:   the plugin / StatusBar call succeeds
StatusBarStep(importOk, callOk) ==
    /\ opPc \in {"hide", "show"}
    /\ LET hiding == opPc = "hide"
           plugin == IF platform = "android" /\ ~FullscreenPlugin
                     THEN importOk ELSE FullscreenPlugin
           inner  == IF platform = "android" /\ plugin
                     THEN (IF hiding THEN "activateImmersiveMode"
                           ELSE "deactivateImmersiveMode")
                     ELSE (IF hiding THEN "StatusBar.hide" ELSE "StatusBar.show")
       IN /\ FullscreenPlugin' = plugin
          /\ log' = log \o <<Ev(inner, callOk),
                             Ev(IF hiding THEN "hideStatusBar" ELSE "showStatusBar", TRUE)>>
          /\ statusBarHidden' = IF callOk THEN hiding ELSE statusBarHidden
    /\ opPc' = NextPc(opPc)
    /\ outcome' = IF NextPc(opPc) = "done" THEN "returned" ELSE outcome
    /\ UNCHANGED <<platform, apis, inFullscreen, orientation, opName, opHasCb, admobInitialized>>
    /\ UNCHANGED <<purchaseVars, appVars>>

\* STEP 4 of enterVideoFullscreen: the fullscreen request on the container; with the
\* standard API a failure of requestFullscreen({navigationUI:'hide'}) falls through
\* to a plain requestFullscreen(); everything is inside the outer try.
RequestFullscreen(ok) ==
    /\ opPc = "fs"
    /\ LET c == RequestCall(apis)
       IN IF c = "none"
          THEN /\ log' = log
               /\ inFullscreen' = inFullscreen
               /\ opPc' = "done"
               /\ outcome' = "returned"
          ELSE /\ log' = Append(log, Ev(c, ok))
               /\ inFullscreen' = (inFullscreen \/ ok)
               /\ opPc' = IF ok THEN "done" ELSE FsAfterFailure(opPc, apis)
               /\ outcome' = IF opPc' = "done" THEN "returned" ELSE outcome
    /\ UNCHANGED <<platform, apis, FullscreenPlugin, statusBarHidden, orientation,
                   opName, opHasCb, admobInitialized>>
    /\ UNCHANGED <<purchaseVars, appVars>>

\* The inner catch of STEP 4: await container.requestFullscreen()
RequestFullscreenFallback(ok) ==
    /\ opPc = "fsFallback"
    /\ log' = Append(log, Ev("requestFullscreen()", ok))
    /\ inFullscreen' = (inFullscreen \/ ok)
    /\ opPc' = IF ok THEN "done" ELSE FsAfterFailure(opPc, apis)
    /\ outcome' = IF opPc' = "done" THEN "returned" ELSE outcome
    /\ UNCHANGED <<platform, apis, FullscreenPlugin, statusBarHidden, orientation,
                   opName, opHasCb, admobInitialized>>
    /\ UNCHANGED <<purchaseVars, appVars>>

\* STEP 1 of exitVideoFullscreen: exit web fullscreen inside try/catch.
ExitFullscreen(ok) ==
    /\ opPc = "exitFs"
    /\ LET c == ExitCall(fullscreenElement, apis)
       IN /\ log' = Append(log, Ev(IF c = "none" THEN "exit:none" ELSE c, c = "none" \/ ok))
          /\ inFullscreen' = IF c # "none" /\ ok THEN FALSE ELSE inFullscreen
    /\ opPc' = NextPc(opPc)
    /\ outcome' = IF NextPc(opPc) = "done" THEN "returned" ELSE outcome
    /\ UNCHANGED <<platform, apis, FullscreenPlugin, statusBarHidden, orientation,
                   opName, opHasCb, admobInitialized>>
    /\ UNCHANGED <<purchaseVars, appVars>>

(***************************************************************************)
(* playWithExoPlayer (useExoPlayer.tsx), signInWithGoogle (useAuth.tsx)    *)
(***************************************************************************)

\* An in-app browser open that is re-issued after every failure.
OpenAfterFailure_Loop(pc, plat) ==
    IF plat = "android" THEN "open2" ELSE "done"

\* Where playWithExoPlayer goes after a failed Browser.open: on Android the first
\* failure falls back to a plain Browser.open({url}); any other failure ends in the
\* outer catch, which returns false.
OpenAfterFailure(pc, plat) ==
    IF pc = "open1" /\ plat = "android" THEN "open2" ELSE "done"

\* playWithExoPlayer(videoUrl): on the web it returns false without any call.
CallPlayWithExoPlayer ==
    /\ Idle
    /\ opName' = "playWithExoPlayer"
    /\ opHasCb' = FALSE
    /\ log' = <<>>
    /\ IF isNative
       THEN opPc' = "open1" /\ outcome' = "running"
       ELSE opPc' = "done" /\ outcome' = "returned"
    /\ UNCHANGED <<platform, apis, FullscreenPlugin, inFullscreen, statusBarHidden,
                   orientation, admobInitialized>>
    /\ UNCHANGED <<purchaseVars, appVars>>

\* await Browser.open(...) inside playWithExoPlayer
BrowserOpenVideo(ok) ==
    /\ opPc \in {"open1", "open2"}
    /\ log' = Append(log, Ev(IF opPc = "open1" THEN "Browser.open(fullscreen)"
                             ELSE "Browser.open(url)", ok))
    /\ opPc' = IF ok THEN "done" ELSE OpenAfterFailure(opPc, platform)
    /\ outcome' = IF opPc' = "done" THEN "returned" ELSE outcome
    /\ UNCHANGED <<platform, apis, FullscreenPlugin, inFullscreen, statusBarHidden,
                   orientation, opName, opHasCb, admobInitialized>>
    /\ UNCHANGED <<purchaseVars, appVars>>

\* signInWithGoogle(): the OAuth request answers with an error or with data
\* (with or without a URL); only the native branch opens the in-app browser.
SignInResults == {"url", "nourl", "error"}

CallSignInWithGoogle(res) ==
    /\ Idle
    /\ opName' = "signInWithGoogle"
    /\ opHasCb' = FALSE
    /\ log' = <<Ev("signInWithOAuth", res # "error")>>
    /\ IF isNative /\ res = "url"
       THEN opPc' = "authOpen" /\ outcome' = "running"
       ELSE opPc' = "done" /\ outcome' = "returned"
    /\ UNCHANGED <<platform, apis, FullscreenPlugin, inFullscreen, statusBarHidden,
                   orientation, admobInitialized>>
    /\ UNCHANGED <<purchaseVars, appVars>>

\* await Browser.open({url: data.url, ...}) in signInWithGoogle: not inside a try.
BrowserOpenAuth(ok) ==
    /\ opPc = "authOpen"
    /\ log' = Append(log, Ev("Browser.open(oauth)", ok))
    /\ opPc' = "done"
    /\ outcome' = IF ok THEN "returned" ELSE "threw"
    /\ UNCHANGED <<platform, apis, FullscreenPlugin, inFullscreen, statusBarHidden,
                   orientation, opName, opHasCb, admobInitialized>>
    /\ UNCHANGED <<purchaseVars, appVars>>

(***************************************************************************)
(* services/admobService.ts: the wrappers with fixed test ad units         *)
(***************************************************************************)
AdmobOps == {"initializeAdMob", "showBannerAd", "hideBannerAd", "showInterstitialAd"}

\* The first SDK call of each wrapper.
AdmobFirstPc(name) ==
    CASE name = "initializeAdMob"    -> "AdMob.initialize"
      [] name = "showBannerAd"       -> "AdMob.showBanner"
      [] name = "hideBannerAd"       -> "AdMob.hideBanner"
      [] name = "showInterstitialAd" -> "AdMob.prepareInterstitial"

AdmobPcs == {"AdMob.initialize", "AdMob.showBanner", "AdMob.hideBanner",
             "AdMob.prepareInterstitial", "AdMob.showInterstitial"}

\* Each wrapper returns at once when not native (initializeAdMob also when already
\* initialized).
CallAdmobService(name) ==
    /\ Idle
    /\ opName' = name
    /\ opHasCb' = FALSE
    /\ log' = <<>>
    /\ IF ~isNative \/ (name = "initializeAdMob" /\ admobInitialized)
       THEN opPc' = "done" /\ outcome' = "returned"
       ELSE opPc' = AdmobFirstPc(name) /\ outcome' = "running"
    /\ UNCHANGED <<platform, apis, FullscreenPlugin, inFullscreen, statusBarHidden,
                   orientation, admobInitialized>>
    /\ UNCHANGED <<purchaseVars, appVars>>

\* One awaited AdMob call inside a wrapper's try block: a rejection is logged and the
\* wrapper returns; showInterstitialAd shows only after a successful prepare.
AdmobCall(ok) ==
    /\ opPc \in AdmobPcs
    /\ log' = Append(log, Ev(opPc, ok))
    /\ admobInitialized' = (admobInitialized \/ (opPc = "AdMob.initialize" /\ ok))
    /\ opPc' = IF ok /\ opPc = "AdMob.prepareInterstitial"
               THEN "AdMob.showInterstitial" ELSE "done"
    /\ outcome' = IF opPc' = "done" THEN "returned" ELSE outcome
    /\ UNCHANGED <<platform, apis, FullscreenPlugin, inFullscreen, statusBarHidden,
                   orientation, opName, opHasCb>>
    /\ UNCHANGED <<purchaseVars, appVars>>
InitNative ==
    /\ platform \in Platforms
    /\ apis \in ApiSets
    /\ FullscreenPlugin = FALSE
    /\ inFullscreen = FALSE
    /\ statusBarHidden = FALSE
    /\ orientation = "portrait"
    /\ opName = "idle"
    /\ opPc = "done"
    /\ opHasCb = FALSE
    /\ log = <<>>
    /\ outcome = "none"
    /\ admobInitialized = FALSE

(***************************************************************************)
(* Membership purchase: MobileVIPPanel.handlePurchase and                  *)
(* Subscriptions.handleConfirmPurchase                                     *)
(***************************************************************************)

MaxPrice == 2
MaxBalance == 2

NoUser == "none"
NoPlan == [id |-> "none", price |-> 0]
Users == {"u1", "u2"}
PlanIds == {"basic", "vip"}

\* The plan rows the screens hold (fetchPlans keeps the rows as fetched).
Plans == {[id |-> p, price |-> price[p]] : p \in PlanIds}

\* The purchase guard without the balance test.
PurchaseAllowed_NoBalanceTest(u, plan, balance) ==
    u # NoUser /\ plan # NoPlan

\* if (!selectedPlan || !user) return; if (walletBalance < selectedPlan.price) {...return}
PurchaseAllowed(u, plan, balance) ==
    /\ u # NoUser
    /\ plan # NoPlan
    /\ ~(balance < plan.price)

\* The RPC arguments with the wallet balance passed as the amount.
RpcArgs_BalanceAsAmount(u, plan, balance) ==
    [p_user_id |-> u, p_plan_id |-> plan.id, p_amount |-> balance]

\* supabase.rpc('purchase_membership_with_wallet', {p_user_id, p_plan_id, p_amount})
RpcArgs(u, plan, balance) ==
    [p_user_id |-> u, p_plan_id |-> plan.id, p_amount |-> plan.price]

\* The record kept of an issued RPC: its arguments and the state it was issued from.
Issued(comp, u, plan, balance) ==
    [comp |-> comp, args |-> RpcArgs(u, plan, balance),
     user |-> u, plan |-> plan, balance |-> balance]

NoRpc == [comp |-> "none"]

\* The auth state changes (sign in, sign out, another account).
AuthChange(u) ==
    /\ user' = u
    /\ u # user
    /\ UNCHANGED <<price, panelOpen, selectedPlan, walletBalance, processingPurchase,
                   panelRefetch, toast, confirmPlanDetails, confirmDialogOpen,
                   pageSelectedPlan, pageWalletBalance, rpcInFlight, lastRpc, purchaseScreen>>
    /\ UNCHANGED <<nativeVars, appVars>>

\* The parent opens or closes the VIP panel.
SetPanelOpen(v) ==
    /\ purchaseScreen = "panel"
    /\ panelOpen' = v
    /\ v # panelOpen
    /\ UNCHANGED <<user, price, selectedPlan, walletBalance, processingPurchase,
                   panelRefetch, toast, confirmPlanDetails, confirmDialogOpen,
                   pageSelectedPlan, pageWalletBalance, rpcInFlight, lastRpc, purchaseScreen>>
    /\ UNCHANGED <<nativeVars, appVars>>

\* fetchWalletBalance of the panel answers: b is data.wallet_balance || 0; an error
\* leaves the local balance as it was.
PanelWalletFetched(b, ok) ==
    /\ user # NoUser
    /\ panelOpen \/ panelRefetch
    /\ walletBalance' = IF ok THEN b ELSE walletBalance
    /\ panelRefetch' = FALSE
    /\ UNCHANGED <<user, price, panelOpen, selectedPlan, processingPurchase, toast,
                   confirmPlanDetails, confirmDialogOpen, pageSelectedPlan,
                   pageWalletBalance, rpcInFlight, lastRpc, purchaseScreen>>
    /\ UNCHANGED <<nativeVars, appVars>>

\* fetchWalletBalance of the Subscriptions page answers.
PageWalletFetched(b, ok) ==
    /\ purchaseScreen = "page"
    /\ user # NoUser
    /\ pageWalletBalance' = IF ok THEN b ELSE pageWalletBalance
    /\ UNCHANGED <<user, price, panelOpen, selectedPlan, walletBalance, processingPurchase,
                   panelRefetch, toast, confirmPlanDetails, confirmDialogOpen,
                   pageSelectedPlan, rpcInFlight, lastRpc, purchaseScreen>>
    /\ UNCHANGED <<nativeVars, appVars>>

\* handleSelectPlan(plan) and the Back button (setSelectedPlan(null)).
HandleSelectPlan(plan) ==
    /\ panelOpen
    /\ plan # selectedPlan
    /\ selectedPlan' = IF plan = NoPlan \/ user # NoUser THEN plan ELSE selectedPlan
    /\ UNCHANGED <<user, price, panelOpen, walletBalance, processingPurchase, panelRefetch,
                   toast, confirmPlanDetails, confirmDialogOpen, pageSelectedPlan,
                   pageWalletBalance, rpcInFlight, lastRpc, purchaseScreen>>
    /\ UNCHANGED <<nativeVars, appVars>>

\* handlePurchase up to its await: the Pay button is disabled while processing.
HandlePurchase ==
    /\ panelOpen
    /\ ~processingPurchase
    /\ IF PurchaseAllowed(user, selectedPlan, walletBalance)
       THEN /\ processingPurchase' = TRUE
            /\ rpcInFlight' = rpcInFlight \cup {Issued("panel", user, selectedPlan, walletBalance)}
            /\ lastRpc' = Issued("panel", user, selectedPlan, walletBalance)
            /\ toast' = toast
       ELSE /\ toast' = IF user # NoUser /\ selectedPlan # NoPlan
                        THEN "Insufficient Balance" ELSE toast
            /\ UNCHANGED <<processingPurchase, rpcInFlight, lastRpc, purchaseScreen>>
    /\ UNCHANGED <<user, price, panelOpen, selectedPlan, walletBalance, panelRefetch,
                   confirmPlanDetails, confirmDialogOpen, pageSelectedPlan,
                   pageWalletBalance, purchaseScreen>>
    /\ UNCHANGED <<nativeVars, appVars>>

\* The RPC of the panel answers: the rest of handlePurchase (try / catch / finally).
\* handlePurchase closing the panel whatever the RPC returned.
PanelAfterRpc_CloseAlways(ok, open, plan, refetch) ==
    [toast |-> IF ok THEN "VIP Activated!" ELSE "Failed",
     panelOpen |-> FALSE, selectedPlan |-> NoPlan, panelRefetch |-> ok \/ refetch]

\* handlePurchase after the await (MobileVIPPanel.tsx:150-168): without an error
\* the success toast, onOpenChange(false), setSelectedPlan(null) and the two
\* refetches; with one (returned or thrown) the destructive toast only.
PanelAfterRpc(ok, open, plan, refetch) ==
    IF ok
    THEN [toast |-> "VIP Activated!", panelOpen |-> FALSE, selectedPlan |-> NoPlan,
          panelRefetch |-> TRUE]
    ELSE [toast |-> "Failed", panelOpen |-> open, selectedPlan |-> plan,
          panelRefetch |-> refetch]

PanelRpcReturns(r, ok) ==
    /\ r \in rpcInFlight
    /\ r.comp = "panel"
    /\ rpcInFlight' = rpcInFlight \ {r}
    /\ LET after == PanelAfterRpc(ok, panelOpen, selectedPlan, panelRefetch)
       IN /\ toast' = after.toast
          /\ panelOpen' = after.panelOpen
          /\ selectedPlan' = after.selectedPlan
          /\ panelRefetch' = after.panelRefetch
    /\ processingPurchase' = FALSE
    /\ rpcOutcome' = IF ok THEN "ok" ELSE "error"
    /\ UNCHANGED <<user, price, walletBalance, confirmPlanDetails, confirmDialogOpen,
                   pageSelectedPlan, pageWalletBalance, lastRpc, purchaseScreen>>
    /\ UNCHANGED <<nativeVars, dbVars, adsVars, screenVars, slotVars, hookVars, linkVars,
                   toggleVars, layoutVars, cellVars, unitVars, gridVars>>

\* handleSubscribe(planId) on the Subscriptions page; the dialog can also be cancelled.
HandleSubscribe(plan) ==
    /\ purchaseScreen = "page"
    /\ pageSelectedPlan = "none"
    /\ IF user = NoUser
       THEN /\ toast' = "Login Required"
            /\ UNCHANGED <<confirmPlanDetails, confirmDialogOpen>>
       ELSE /\ confirmPlanDetails' = plan
            /\ confirmDialogOpen' = TRUE
            /\ toast' = toast
    /\ UNCHANGED <<user, price, panelOpen, selectedPlan, walletBalance, processingPurchase,
                   panelRefetch, pageSelectedPlan, pageWalletBalance, rpcInFlight, lastRpc, purchaseScreen>>
    /\ UNCHANGED <<nativeVars, appVars>>

\* handleConfirmPurchase up to its await: the Confirm button is disabled while a
\* purchase is running (selectedPlan !== null).
HandleConfirmPurchase ==
    /\ confirmDialogOpen
    /\ pageSelectedPlan = "none"
    /\ IF PurchaseAllowed(user, confirmPlanDetails, pageWalletBalance)
       THEN /\ pageSelectedPlan' = confirmPlanDetails.id
            /\ rpcInFlight' = rpcInFlight \cup
                   {Issued("page", user, confirmPlanDetails, pageWalletBalance)}
            /\ lastRpc' = Issued("page", user, confirmPlanDetails, pageWalletBalance)
            /\ UNCHANGED <<toast, confirmDialogOpen>>
       ELSE /\ IF user # NoUser /\ confirmPlanDetails # NoPlan
               THEN toast' = "Insufficient Balance" /\ confirmDialogOpen' = FALSE
               ELSE UNCHANGED <<toast, confirmDialogOpen>>
            /\ UNCHANGED <<pageSelectedPlan, rpcInFlight, lastRpc, purchaseScreen>>
    /\ UNCHANGED <<user, price, panelOpen, selectedPlan, walletBalance, processingPurchase,
                   panelRefetch, confirmPlanDetails, pageWalletBalance, purchaseScreen>>
    /\ UNCHANGED <<nativeVars, appVars>>

\* The RPC of the page answers: the rest of handleConfirmPurchase.
PageRpcReturns(r, ok) ==
    /\ r \in rpcInFlight
    /\ r.comp = "page"
    /\ rpcInFlight' = rpcInFlight \ {r}
    /\ IF ok
       THEN toast' = "Subscription Successful!" /\ confirmDialogOpen' = FALSE
       ELSE toast' = "Subscription Failed" /\ confirmDialogOpen' = confirmDialogOpen
    /\ pageSelectedPlan' = "none"
    /\ UNCHANGED <<user, price, panelOpen, selectedPlan, walletBalance, processingPurchase,
                   panelRefetch, confirmPlanDetails, pageWalletBalance, lastRpc, purchaseScreen>>
    /\ UNCHANGED <<nativeVars, appVars>>
InitPurchase ==
    /\ user = NoUser
    /\ price \in [PlanIds -> 1..MaxPrice]
    /\ panelOpen = FALSE
    /\ selectedPlan = NoPlan
    /\ walletBalance = 0
    /\ processingPurchase = FALSE
    /\ panelRefetch = FALSE
    /\ toast = "none"
    /\ confirmPlanDetails = NoPlan
    /\ confirmDialogOpen = FALSE
    /\ pageSelectedPlan = "none"
    /\ pageWalletBalance = 0
    /\ rpcInFlight = {}
    /\ lastRpc = NoRpc
    /\ purchaseScreen \in {"panel", "page"}

NextPanel ==
    \/ \E v \in BOOLEAN : SetPanelOpen(v)
    \/ \E b \in 0..MaxBalance, ok \in BOOLEAN : PanelWalletFetched(b, ok)
    \/ \E plan \in Plans \cup {NoPlan} : HandleSelectPlan(plan)
    \/ HandlePurchase
    \/ \E r \in rpcInFlight, ok \in BOOLEAN : PanelRpcReturns(r, ok)

NextPage ==
    \/ \E b \in 0..MaxBalance, ok \in BOOLEAN : PageWalletFetched(b, ok)
    \/ \E plan \in Plans : HandleSubscribe(plan)
    \/ HandleConfirmPurchase
    \/ \E r \in rpcInFlight, ok \in BOOLEAN : PageRpcReturns(r, ok)

NextPurchase ==
    \/ \E u \in Users \cup {NoUser} : AuthChange(u)
    \/ NextPanel
    \/ NextPage

(***************************************************************************)
(* The settings-driven ad service (src/unnamed/part_006)                   *)
(***************************************************************************)

MaxTasks == 2

NoSettings == [enabled |-> FALSE, testMode |-> FALSE, ads |-> <<>>, null |-> TRUE]
\* data: null, for the settings row and for the ad rows
NoRow == [enabled |-> FALSE, test_mode |-> FALSE, null |-> TRUE]
NoRows == [rows |-> <<>>, null |-> TRUE]
NoAdUnit == "null"
NoPlacement == "undefined"

Placements == {"home_banner", "watch_bottom_banner"}

Ad(type, placement, active, unit) ==
    [ad_type |-> type, placement |-> placement, is_active |-> active, ad_unit_id |-> unit]

\* The app_ads tables the dashboard may hold in a run.
DashboardAdLists ==
    { <<>>,
      <<Ad("interstitial", "watch_bottom_banner", TRUE, "unit-i"),
        Ad("banner", "watch_bottom_banner", TRUE, "unit-b")>> }

\* DEFAULT_TEST_ADS[platform][adType]
DefaultTestAd(plat, adType) ==
    CASE adType = "banner" ->
           IF plat = "ios" THEN "ca-app-pub-3940256099942544/2934735716"
           ELSE "ca-app-pub-3940256099942544/6300978111"
      [] adType = "interstitial" ->
           IF plat = "ios" THEN "ca-app-pub-3940256099942544/4411468910"
           ELSE "ca-app-pub-3940256099942544/1033173712"
      [] adType = "rewarded" ->
           IF plat = "ios" THEN "ca-app-pub-3940256099942544/1712485313"
           ELSE "ca-app-pub-3940256099942544/5224354917"
      [] OTHER -> NoAdUnit

\* getAdUnit giving the platform default when no configured ad matches.
getAdUnit_FallbackToDefaults(settings, plat, adType, placement) ==
    IF settings.null \/ Len(settings.ads) = 0
    THEN DefaultTestAd(plat, adType)
    ELSE LET match == {i \in DOMAIN settings.ads :
                          /\ settings.ads[i].ad_type = adType
                          /\ (placement = NoPlacement \/ settings.ads[i].placement = placement)
                          /\ settings.ads[i].is_active}
         IN IF match = {} THEN DefaultTestAd(plat, adType)
            ELSE LET first == CHOOSE i \in match : \A j \in match : i <= j
                 IN IF settings.ads[first].ad_unit_id = "" THEN NoAdUnit
                    ELSE settings.ads[first].ad_unit_id

\* getAdUnit(adType, placement): the defaults when no ads are cached, else the unit of
\* the first active ad of that type (and placement, when one is given), else null.
getAdUnit(settings, plat, adType, placement) ==
    IF settings.null \/ Len(settings.ads) = 0
    THEN DefaultTestAd(plat, adType)
    ELSE LET match == {i \in DOMAIN settings.ads :
                          /\ settings.ads[i].ad_type = adType
                          /\ (placement = NoPlacement \/ settings.ads[i].placement = placement)
                          /\ settings.ads[i].is_active}
         IN IF match = {} THEN NoAdUnit
            ELSE LET first == CHOOSE i \in match : \A j \in match : i <= j
                 IN IF settings.ads[first].ad_unit_id = "" THEN NoAdUnit
                    ELSE settings.ads[first].ad_unit_id

\* fetchSettings with the previous cache kept whenever a query came back without data.
ParseSettings_KeepOnError(old, settingsData, adsData) ==
    IF settingsData.null \/ adsData.null THEN old
    ELSE [enabled |-> settingsData.enabled, testMode |-> settingsData.test_mode,
          ads |-> adsData.rows, null |-> FALSE]

\* fetchSettings, lines 43-58: the record built from the two query results. A query
\* that came back without data (data: null) leaves the defaults enabled = true,
\* testMode = false and ads = [].
ParseSettings(old, settingsData, adsData) ==
    [enabled  |-> IF settingsData.null THEN TRUE ELSE settingsData.enabled,
     testMode |-> IF settingsData.null THEN FALSE ELSE settingsData.test_mode,
     ads      |-> IF adsData.null THEN <<>> ELSE adsData.rows,
     null     |-> FALSE]

\* cachedSettings?.enabled
CachedEnabled(c) == ~c.null /\ c.enabled

\* isAdsEnabled(): cachedSettings?.enabled ?? false
isAdsEnabled == CachedEnabled(cachedSettings)

\* isTestModeEnabled(): cachedSettings?.testMode ?? true
isTestModeEnabled == IF cachedSettings.null THEN TRUE ELSE cachedSettings.testMode

\* initializeAdMob without the dashboard test.
InitBlocked_Never(c) == FALSE

\* initializeAdMob, line 95: if (cachedSettings && !cachedSettings.enabled) return
InitBlocked(c) == ~c.null /\ ~c.enabled

IdleTask == [op |-> "idle", pc |-> "idle", settingsData |-> NoRow]

Task(op, pc) == [op |-> op, pc |-> pc, settingsData |-> NoRow]

QueryResults == {"data", "null", "throw"}

\* A module-level value across the unmount of the screen that wrote it, were the
\* value component state.
SurvivesUnmount_Reset(v, initial) == initial

\* A module-level `let` keeps its value when a screen unmounts (part_006:19-24,
\* useFullscreenState.tsx:4).
SurvivesUnmount(v, initial) == v

\* History: reading a value whose last writer has unmounted.
ReadsStale(owners) == \E o \in owners : o = "earlier"

FreeSlot(k) == k \in 1..slots /\ tasks[k] = IdleTask

\* The admin changes the dashboard rows.
DashboardUpdate(e, ads) ==
    /\ <<e, ads>> # <<dbEnabled, dbAds>>
    /\ dbEnabled' = e
    /\ dbAds' = ads
    /\ everEnabled' = (everEnabled \/ e)
    /\ fetchEvent' = "none"
    /\ UNCHANGED <<dbTestMode, isInitialized, cachedSettings, tasks, slots, initsNotFailed,
                   lastSdkCall,
                   screenVars>>
    /\ UNCHANGED <<nativeVars, purchaseVars, slotVars, hookVars, linkVars, uiVars>>

\* initializeAdMob(): nothing on the web or when already initialized, else the
\* settings are fetched first.
CallInitializeAdMob(k) ==
    /\ FreeSlot(k)
    /\ tasks' = IF ~isNative \/ isInitialized THEN tasks
                ELSE [tasks EXCEPT ![k] = Task("initializeAdMob", "settingsQuery")]
    /\ crossRead' = (crossRead \/ (isNative /\ isInitialized /\ ReadsStale({initOwner})))
    /\ fetchEvent' = "none"
    /\ UNCHANGED <<dbVars, isInitialized, cachedSettings, slots, initsNotFailed,
                   lastSdkCall,
                   screenKind, screenEpoch, globalIsFullscreen, playerIsFullscreen,
                   subscriberValue, cacheOwner, initOwner, globalOwner>>
    /\ UNCHANGED <<nativeVars, purchaseVars, slotVars, hookVars, linkVars, uiVars>>

\* refreshAdSettings(): await fetchSettings()
CallRefreshAdSettings(k) ==
    /\ FreeSlot(k)
    /\ isNative
    /\ tasks' = [tasks EXCEPT ![k] = Task("refreshAdSettings", "settingsQuery")]
    /\ fetchEvent' = "none"
    /\ UNCHANGED <<dbVars, isInitialized, cachedSettings, slots, initsNotFailed,
                   lastSdkCall, screenVars>>
    /\ UNCHANGED <<nativeVars, purchaseVars, slotVars, hookVars, linkVars, uiVars>>

\* What follows fetchSettings in the running call: initializeAdMob tests the cache
\* and calls AdMob.initialize; refreshAdSettings is done.
AfterFetch(k, cache, event, staleRead) ==
    /\ cachedSettings' = cache
    /\ fetchEvent' = event
    /\ IF tasks[k].op = "initializeAdMob" /\ ~InitBlocked(cache)
       THEN /\ tasks' = [tasks EXCEPT ![k] = Task("initializeAdMob", "AdMob.initialize")]
            /\ lastSdkCall' = "AdMob.initialize"
            /\ initsNotFailed' = initsNotFailed + 1
       ELSE /\ tasks' = [tasks EXCEPT ![k] = IdleTask]
            /\ lastSdkCall' = lastSdkCall
            /\ initsNotFailed' = initsNotFailed
    /\ crossRead' = (crossRead \/ (tasks[k].op = "initializeAdMob" /\ staleRead))

\* fetchSettings, first query (app_ad_settings): it answers with the row, with
\* data: null (an error result), or it throws (caught: the cache is left alone).
SettingsQueryReturns(k, res) ==
    /\ k \in 1..slots
    /\ tasks[k].pc = "settingsQuery"
    /\ IF res = "throw"
       THEN /\ AfterFetch(k, cachedSettings, "failed",
                          ~cachedSettings.null /\ ReadsStale({cacheOwner}))
            /\ cacheOwner' = cacheOwner
       ELSE /\ tasks' = [tasks EXCEPT ![k].pc = "adsQuery",
                                      ![k].settingsData =
                                          IF res = "null" THEN NoRow
                                          ELSE [enabled |-> dbEnabled,
                                                test_mode |-> dbTestMode,
                                                null |-> FALSE]]
            /\ fetchEvent' = "none"
            /\ UNCHANGED <<cachedSettings, lastSdkCall, initsNotFailed, cacheOwner,
                           crossRead>>
    /\ UNCHANGED <<dbVars, isInitialized, slots, screenKind, screenEpoch,
                   globalIsFullscreen, playerIsFullscreen, subscriberValue, initOwner,
                   globalOwner>>
    /\ UNCHANGED <<nativeVars, purchaseVars, slotVars, hookVars, linkVars, uiVars>>

\* fetchSettings, second query (app_ads) and the assignment to cachedSettings.
AdsQueryReturns(k, res) ==
    /\ k \in 1..slots
    /\ tasks[k].pc = "adsQuery"
    /\ IF res = "throw"
       THEN /\ AfterFetch(k, cachedSettings, "failed",
                          ~cachedSettings.null /\ ReadsStale({cacheOwner}))
            /\ cacheOwner' = cacheOwner
       ELSE /\ AfterFetch(k,
                          ParseSettings(cachedSettings, tasks[k].settingsData,
                                        IF res = "null" THEN NoRows
                                        ELSE [rows |-> dbAds, null |-> FALSE]),
                          IF res = "null" \/ tasks[k].settingsData.null
                          THEN "failed" ELSE "ok",
                          FALSE)
            /\ cacheOwner' = "current"
    /\ UNCHANGED <<dbVars, isInitialized, slots, screenKind, screenEpoch,
                   globalIsFullscreen, playerIsFullscreen, subscriberValue, initOwner,
                   globalOwner>>
    /\ UNCHANGED <<nativeVars, purchaseVars, slotVars, hookVars, linkVars, uiVars>>

ShowOps == {"showBannerAd", "showInterstitialAd", "showRewardedAd"}

AdTypeOf(op) ==
    CASE op = "showBannerAd"       -> "banner"
      [] op = "showInterstitialAd" -> "interstitial"
      [] op = "showRewardedAd"     -> "rewarded"

\* The first SDK call of a show operation.
FirstSdkCall(op) ==
    CASE op = "showBannerAd"       -> "AdMob.showBanner"
      [] op = "showInterstitialAd" -> "AdMob.prepareInterstitial"
      [] op = "showRewardedAd"     -> "AdMob.addListener"

\* showBannerAd / showInterstitialAd / showRewardedAd without the enabled test.
ShowAllowed_IgnoreEnabled(c, plat, op, placement) ==
    /\ plat # "web"
    /\ getAdUnit(c, plat, AdTypeOf(op), placement) # NoAdUnit

\* The guards of the show operations: native, cachedSettings?.enabled, and an ad unit.
ShowAllowed(c, plat, op, placement) ==
    /\ plat # "web"
    /\ CachedEnabled(c)
    /\ getAdUnit(c, plat, AdTypeOf(op), placement) # NoAdUnit

\* showBannerAd(position, placement), showInterstitialAd(placement),
\* showRewardedAd(placement) up to the first await.
CallShowAd(k, op, placement) ==
    /\ FreeSlot(k)
    /\ IF ShowAllowed(cachedSettings, platform, op, placement)
       THEN /\ tasks' = [tasks EXCEPT ![k] = Task(op, FirstSdkCall(op))]
            /\ lastSdkCall' = FirstSdkCall(op)
       ELSE UNCHANGED <<tasks, lastSdkCall>>
    /\ crossRead' = (crossRead \/ (isNative /\ ~cachedSettings.null
                                   /\ ReadsStale({cacheOwner})))
    /\ fetchEvent' = "none"
    /\ UNCHANGED <<dbVars, isInitialized, cachedSettings, slots, initsNotFailed,
                   screenKind, screenEpoch,
                   globalIsFullscreen, playerIsFullscreen, subscriberValue, cacheOwner,
                   initOwner, globalOwner>>
    /\ UNCHANGED <<nativeVars, purchaseVars, slotVars, hookVars, linkVars, uiVars>>

\* hideBannerAd(): no settings involved.
CallHideBannerAd(k) ==
    /\ FreeSlot(k)
    /\ isNative
    /\ tasks' = [tasks EXCEPT ![k] = Task("hideBannerAd", "AdMob.hideBanner")]
    /\ lastSdkCall' = "AdMob.hideBanner"
    /\ fetchEvent' = "none"
    /\ UNCHANGED <<dbVars, isInitialized, cachedSettings, slots, initsNotFailed, screenVars>>
    /\ UNCHANGED <<nativeVars, purchaseVars, slotVars, hookVars, linkVars, uiVars>>

\* The SDK call that follows a successful one inside the same operation.
FollowingSdkCall(pc) ==
    CASE pc = "AdMob.prepareInterstitial" -> "AdMob.showInterstitial"
      [] pc = "AdMob.addListener"         -> "AdMob.prepareRewardVideoAd"
      [] pc = "AdMob.prepareRewardVideoAd" -> "AdMob.showRewardVideoAd"
      [] OTHER                            -> "none"

\* An awaited ad SDK call settles; a rejection is caught and ends the operation.
SdkCallSettles(k, ok) ==
    /\ k \in 1..slots
    /\ tasks[k].pc \notin {"idle", "settingsQuery", "adsQuery"}
    /\ LET next == IF ok THEN FollowingSdkCall(tasks[k].pc) ELSE "none"
       IN /\ tasks' = [tasks EXCEPT ![k] = IF next = "none" THEN IdleTask
                                           ELSE Task(tasks[k].op, next)]
          /\ lastSdkCall' = IF next = "none" THEN lastSdkCall ELSE next
    /\ isInitialized' = (isInitialized \/ (tasks[k].pc = "AdMob.initialize" /\ ok))
    /\ initsNotFailed' = IF tasks[k].pc = "AdMob.initialize" /\ ~ok
                         THEN initsNotFailed - 1 ELSE initsNotFailed
    /\ initOwner' = IF tasks[k].pc = "AdMob.initialize" /\ ok THEN "current" ELSE initOwner
    /\ fetchEvent' = "none"
    /\ UNCHANGED <<dbVars, cachedSettings, slots, screenKind, screenEpoch,
                   globalIsFullscreen, playerIsFullscreen, subscriberValue, cacheOwner,
                   globalOwner, crossRead>>
    /\ UNCHANGED <<nativeVars, purchaseVars, slotVars, hookVars, linkVars, uiVars>>

ScreenKinds == {"home", "watch"}

InitApp ==
    /\ dbEnabled \in BOOLEAN
    /\ dbTestMode \in BOOLEAN
    /\ dbAds \in DashboardAdLists
    /\ everEnabled = dbEnabled
    /\ isInitialized = FALSE
    /\ cachedSettings = NoSettings
    /\ tasks = [k \in 1..MaxTasks |-> IdleTask]
    /\ slots \in 1..MaxTasks
    /\ lastSdkCall = "none"
    /\ initsNotFailed = 0
    /\ fetchEvent = "none"
    /\ screenKind \in ScreenKinds
    /\ screenEpoch = 0
    /\ globalIsFullscreen = FALSE
    /\ playerIsFullscreen = FALSE
    /\ subscriberValue = FALSE
    /\ cacheOwner = "none"
    /\ initOwner = "none"
    /\ globalOwner = "none"
    /\ crossRead = FALSE

\* History: the writer of a module-level value once its screen has unmounted.
OwnerAfterUnmount(o) == IF o = "none" THEN "none" ELSE "earlier"

\* The mounted screen unmounts and the next one mounts. Component state starts
\* afresh: the player's isFullscreen is useState(false), the subscriber's is
\* useState(globalIsFullscreen). A mounting player's effect publishes its false;
\* the new subscriber hears it when its own effect ran first. Nothing clears the
\* module-level values, and the service calls in progress go on.
Navigate(kind, subscribedFirst) ==
    /\ screenKind' = kind
    /\ screenEpoch' = 1 - screenEpoch
    /\ playerIsFullscreen' = FALSE
    /\ cachedSettings' = SurvivesUnmount(cachedSettings, NoSettings)
    /\ isInitialized' = SurvivesUnmount(isInitialized, FALSE)
    /\ globalIsFullscreen' = IF kind = "watch" THEN FALSE
                             ELSE SurvivesUnmount(globalIsFullscreen, FALSE)
    /\ subscriberValue' = IF kind = "watch" /\ subscribedFirst THEN FALSE
                          ELSE SurvivesUnmount(globalIsFullscreen, FALSE)
    /\ cacheOwner' = OwnerAfterUnmount(cacheOwner)
    /\ initOwner' = OwnerAfterUnmount(initOwner)
    /\ globalOwner' = IF kind = "watch" THEN "current" ELSE OwnerAfterUnmount(globalOwner)
    /\ crossRead' = (crossRead \/ globalOwner # "none")
    /\ fetchEvent' = "none"
    /\ UNCHANGED <<dbVars, tasks, slots, initsNotFailed, lastSdkCall>>
    /\ UNCHANGED <<nativeVars, purchaseVars, slotVars, hookVars, linkVars, uiVars>>

\* The player's isFullscreen changes; its effect calls setGlobalFullscreenState,
\* which stores the value and notifies the listeners.
PlayerSetFullscreen(v) ==
    /\ screenKind = "watch"
    /\ v # playerIsFullscreen
    /\ playerIsFullscreen' = v
    /\ globalIsFullscreen' = v
    /\ subscriberValue' = v
    /\ globalOwner' = "current"
    /\ fetchEvent' = "none"
    /\ UNCHANGED <<dbVars, isInitialized, cachedSettings, tasks, slots, initsNotFailed,
                   lastSdkCall,
                   screenKind, screenEpoch, cacheOwner, initOwner, crossRead>>
    /\ UNCHANGED <<nativeVars, purchaseVars, slotVars, hookVars, linkVars, uiVars>>

NextService ==
    \/ \E k \in 1..MaxTasks : CallInitializeAdMob(k)
    \/ \E k \in 1..MaxTasks : CallRefreshAdSettings(k)
    \/ \E k \in 1..MaxTasks, res \in QueryResults : SettingsQueryReturns(k, res)
    \/ \E k \in 1..MaxTasks, res \in QueryResults : AdsQueryReturns(k, res)
    \/ \E k \in 1..MaxTasks, op \in ShowOps, pl \in Placements \cup {NoPlacement} :
          CallShowAd(k, op, pl)
    \/ \E k \in 1..MaxTasks : CallHideBannerAd(k)
    \/ \E k \in 1..MaxTasks, ok \in BOOLEAN : SdkCallSettles(k, ok)

NextAds ==
    \/ \E e \in BOOLEAN, ads \in DashboardAdLists : DashboardUpdate(e, ads)
    \/ NextService

NextScreens ==
    \/ \E kind \in ScreenKinds, first \in BOOLEAN : Navigate(kind, first)
    \/ \E v \in BOOLEAN : PlayerSetFullscreen(v)
    \/ NextService

(***************************************************************************)
(* The banner slot component with the viewport observer                    *)
(* (src/unnamed/part_005)                                                  *)
(***************************************************************************)

NoConfig == [null |-> TRUE, test_mode |-> FALSE, is_test_mode |-> FALSE]

SlotAdRows == {"none", "live", "test"}

\* The render function with a slot element on every path.
HasSlotElement_Always(native, loading, cfg, web) == TRUE

\* The render function, lines 231-272: which renders put the element carrying
\* slotRef on the page. On native, the loading placeholder and the spacer do, an
\* absent configuration renders null; on the web only the web ad code does.
HasSlotElement(native, loading, cfg, web) ==
    IF native THEN (loading \/ ~cfg.null) ELSE web

\* slotRef.current after the latest render
slotRefCurrent == slotMounted /\ HasSlotElement(slotIsNative, isLoading, adConfig, webAdCode)

\* The visibility effect (lines 211-219) with the guards of showBanner (167-173)
\* and hideBanner (196-199): the SDK call it issues, if any.
EffectCall(native, cfg, inView, shown, plugin) ==
    IF ~native \/ cfg.null THEN "none"
    ELSE IF inView
         THEN (IF ~shown /\ plugin THEN "AdMob.showBanner" ELSE "none")
         ELSE (IF shown /\ plugin THEN "AdMob.hideBanner" ELSE "none")

WithCall(pending, call) == IF call = "none" THEN pending ELSE Append(pending, call)

\* The component mounts. The first render happens with the initial state
\* (isNative false, isLoading true, no web ad code); then the effects run: the
\* platform check starts the fetch, and the observer effect, which runs this once
\* only, creates the observer if slotRef.current is set.
SlotMount ==
    /\ ~slotMounted
    /\ slotMounted' = TRUE
    /\ slotIsNative' = isNative
    /\ isLoading' = TRUE
    /\ bannerShown' = FALSE
    /\ webAdCode' = FALSE
    /\ adConfig' = NoConfig
    /\ observerActive' = HasSlotElement(FALSE, TRUE, NoConfig, FALSE)
    /\ isInView' = (observerActive' /\ slotVisible)
    /\ slotPc' = IF isNative THEN "adsQuery" ELSE "webQuery"
    /\ slotAdsData' = "none"
    /\ UNCHANGED <<pluginAvailable, dbSlotAd, dbWebAd, slotVisible, slotPending>>
    /\ UNCHANGED <<nativeVars, purchaseVars, dbVars, adsVars, screenVars,
                   hookVars, linkVars, uiVars>>

\* fetchAdConfig, first query (app_ads). A throw is caught: fetchWebAd() is
\* started and the finally block clears isLoading.
SlotAdsQueryReturns(res) ==
    /\ slotMounted
    /\ slotPc = "adsQuery"
    /\ IF res = "throw"
       THEN /\ slotPc' = "webQuery"
            /\ isLoading' = FALSE
            /\ slotAdsData' = slotAdsData
       ELSE /\ slotPc' = "settingsQuery"
            /\ slotAdsData' = IF res = "null" THEN "none" ELSE dbSlotAd
            /\ isLoading' = isLoading
    /\ UNCHANGED <<pluginAvailable, dbSlotAd, dbWebAd, slotVisible, slotMounted,
                   slotIsNative, bannerShown, webAdCode, adConfig, isInView,
                   observerActive, slotPending>>
    /\ UNCHANGED <<nativeVars, purchaseVars, dbVars, adsVars, screenVars,
                   hookVars, linkVars, uiVars>>

\* fetchAdConfig, second query (app_ad_settings) and what follows it: with an ad
\* row and enabled settings the configuration is stored, else fetchWebAd() is
\* started; isLoading is cleared. The visibility effect runs for the new adConfig.
SlotSettingsQueryReturns(res) ==
    /\ slotMounted
    /\ slotPc = "settingsQuery"
    /\ LET enabled  == IF res = "data" THEN dbEnabled ELSE TRUE
           testMode == IF res = "data" THEN dbTestMode ELSE TRUE
           cfg == IF res # "throw" /\ slotAdsData # "none" /\ enabled
                  THEN [null |-> FALSE, test_mode |-> testMode,
                        is_test_mode |-> (slotAdsData = "test")]
                  ELSE adConfig
       IN /\ adConfig' = cfg
          /\ slotPc' = IF cfg.null THEN "webQuery" ELSE "none"
          /\ slotPending' = WithCall(slotPending,
                                     EffectCall(slotIsNative, cfg, isInView, bannerShown,
                                                pluginAvailable))
    /\ isLoading' = FALSE
    /\ UNCHANGED <<pluginAvailable, dbSlotAd, dbWebAd, slotVisible, slotMounted,
                   slotIsNative, bannerShown, webAdCode, isInView, observerActive,
                   slotAdsData>>
    /\ UNCHANGED <<nativeVars, purchaseVars, dbVars, adsVars, screenVars,
                   hookVars, linkVars, uiVars>>

\* fetchWebAd: the ads query returns.
SlotWebAdQueryReturns(res) ==
    /\ slotMounted
    /\ slotPc = "webQuery"
    /\ webAdCode' = (webAdCode \/ (res = "data" /\ dbWebAd))
    /\ isLoading' = FALSE
    /\ slotPc' = "none"
    /\ UNCHANGED <<pluginAvailable, dbSlotAd, dbWebAd, slotVisible, slotMounted,
                   slotIsNative, bannerShown, adConfig, isInView, observerActive,
                   slotAdsData, slotPending>>
    /\ UNCHANGED <<nativeVars, purchaseVars, dbVars, adsVars, screenVars,
                   hookVars, linkVars, uiVars>>

\* The page scrolls: the slot's place enters or leaves the viewport. An active
\* observer delivers the change to setIsInView and the visibility effect runs.
SlotViewportChange(v) ==
    /\ v # slotVisible
    /\ slotVisible' = v
    /\ isInView' = IF observerActive THEN v ELSE isInView
    /\ slotPending' = WithCall(slotPending,
                               IF isInView' # isInView
                               THEN EffectCall(slotIsNative, adConfig, isInView',
                                               bannerShown, pluginAvailable)
                               ELSE "none")
    /\ UNCHANGED <<pluginAvailable, dbSlotAd, dbWebAd, slotMounted, slotIsNative,
                   isLoading, bannerShown, webAdCode, adConfig, observerActive, slotPc,
                   slotAdsData>>
    /\ UNCHANGED <<nativeVars, purchaseVars, dbVars, adsVars, screenVars,
                   hookVars, linkVars, uiVars>>

\* An SDK call of the slot settles: showBanner sets bannerShown, hideBanner clears
\* it, a rejection is caught; the visibility effect runs for the new bannerShown.
SlotSdkCallSettles(i, ok) ==
    /\ i \in DOMAIN slotPending
    /\ LET call == slotPending[i]
           rest == SubSeq(slotPending, 1, i - 1) \o
                   SubSeq(slotPending, i + 1, Len(slotPending))
           shown == IF ~ok \/ ~slotMounted THEN bannerShown
                    ELSE call = "AdMob.showBanner"
       IN /\ bannerShown' = shown
          /\ slotPending' = WithCall(rest,
                                     IF shown # bannerShown
                                     THEN EffectCall(slotIsNative, adConfig, isInView,
                                                     shown, pluginAvailable)
                                     ELSE "none")
    /\ UNCHANGED <<pluginAvailable, dbSlotAd, dbWebAd, slotVisible, slotMounted,
                   slotIsNative, isLoading, webAdCode, adConfig, isInView,
                   observerActive, slotPc, slotAdsData>>
    /\ UNCHANGED <<nativeVars, purchaseVars, dbVars, adsVars, screenVars,
                   hookVars, linkVars, uiVars>>

\* The component unmounts: the cleanup hides a shown banner (not awaited), the
\* observer is disconnected, and the component state is gone.
SlotUnmount ==
    /\ slotMounted
    /\ slotMounted' = FALSE
    /\ slotPending' = WithCall(slotPending,
                               IF slotIsNative /\ bannerShown /\ pluginAvailable
                               THEN "AdMob.hideBanner" ELSE "none")
    /\ slotIsNative' = FALSE
    /\ isLoading' = TRUE
    /\ bannerShown' = FALSE
    /\ webAdCode' = FALSE
    /\ adConfig' = NoConfig
    /\ isInView' = FALSE
    /\ observerActive' = FALSE
    /\ slotPc' = "none"
    /\ slotAdsData' = "none"
    /\ UNCHANGED <<pluginAvailable, dbSlotAd, dbWebAd, slotVisible>>
    /\ UNCHANGED <<nativeVars, purchaseVars, dbVars, adsVars, screenVars,
                   hookVars, linkVars, uiVars>>

InitSlot ==
    /\ pluginAvailable \in BOOLEAN
    /\ dbSlotAd \in SlotAdRows
    /\ dbWebAd \in BOOLEAN
    /\ slotVisible \in BOOLEAN
    /\ slotMounted = FALSE
    /\ slotIsNative = FALSE
    /\ isLoading = TRUE
    /\ bannerShown = FALSE
    /\ webAdCode = FALSE
    /\ adConfig = NoConfig
    /\ isInView = FALSE
    /\ observerActive = FALSE
    /\ slotPc = "none"
    /\ slotAdsData = "none"
    /\ slotPending = <<>>

\* The observer effect finds slotRef.current unset at mount (the first render is
\* null), so no observer exists, isInView stays false and the slot issues no SDK
\* call: SlotSdkCallSettles is enabled in no reachable state and is not a
\* disjunct of NextSlot.
SlotNeverCallsSdk == ~observerActive /\ ~isInView /\ slotPending = <<>>

NextSlot ==
    \/ SlotMount
    \/ \E res \in QueryResults : SlotAdsQueryReturns(res)
    \/ \E res \in QueryResults : SlotSettingsQueryReturns(res)
    \/ \E res \in QueryResults : SlotWebAdQueryReturns(res)
    \/ \E v \in BOOLEAN : SlotViewportChange(v)
    \/ SlotUnmount

(***************************************************************************)
(* The banner slot built on the useAdMob hook                              *)
(* (src/src/components/ads/NativeBannerAdSlot.tsx, src/src/hooks/useAdMob.tsx) *)
(***************************************************************************)

MaxPending == 3

\* The slot effect's test for a configured banner (NativeBannerAdSlot.tsx:51-57):
\* a banner for the placement or for 'all', or no ads at all.
HasAdOrDefaults(cfg, placement) ==
    \/ Len(cfg.ads) = 0
    \/ \E i \in DOMAIN cfg.ads :
          /\ cfg.ads[i].ad_type = "banner"
          /\ cfg.ads[i].placement \in {placement, "all"}
          /\ cfg.ads[i].is_active

\* useAdMob.showBanner up to the await (useAdMob.tsx:156-176): the guards and the
\* ad unit.
HookShowCalls(cfg, initialized, placement) ==
    IF /\ isNative /\ initialized /\ CachedEnabled(cfg)
       /\ getAdUnit(cfg, platform, "banner", placement) # NoAdUnit
    THEN <<[call |-> "AdMob.showBanner", live |-> TRUE]>>
    ELSE <<>>

\* The slot effect whose cleanup reads the current isBannerVisible.
CleanupCapture_Current(visibleAtEffect, visibleNow) == visibleNow

\* The effect's cleanup (NativeBannerAdSlot.tsx:64-68) tests the isBannerVisible of
\* the render in which the effect ran; isBannerVisible is not a dependency.
CleanupCapture(visibleAtEffect, visibleNow) == visibleAtEffect

\* The cleanup of the slot effect: hideBanner() if it sees the banner visible.
HookCleanupCalls ==
    IF hookCleanup # "none" /\ CleanupCapture(hookCleanup = "visible", isBannerVisible)
       /\ isNative
    THEN <<[call |-> "AdMob.hideBanner", live |-> TRUE]>>
    ELSE <<>>

\* The body of the slot effect (NativeBannerAdSlot.tsx:39-69) for the given hook
\* state: whether it gets past the early returns, and the call it makes.
EffectRuns(cfg, initialized) == isNative /\ initialized /\ CachedEnabled(cfg)

EffectShows(cfg, initialized, placement) ==
    EffectRuns(cfg, initialized) /\ HasAdOrDefaults(cfg, placement)

Orphaned(pending) == [i \in DOMAIN pending |-> [pending[i] EXCEPT !.live = FALSE]]

\* The slot mounts; useAdMob starts fetching the settings on a native platform.
HookSlotMount(pl) ==
    /\ ~hookMounted
    /\ Len(hookPending) + 2 <= MaxPending
    /\ hookMounted' = TRUE
    /\ hookPlacement' = pl
    /\ hookPc' = IF isNative THEN "settingsQuery" ELSE "none"
    /\ UNCHANGED <<hookConfig, hookInitialized, isBannerVisible, shouldShow,
                   hookSettingsData, hookCleanup, hookPending, sdkBanner>>
    /\ UNCHANGED <<nativeVars, purchaseVars, dbVars, adsVars, screenVars,
                   slotVars, linkVars, uiVars>>

\* fetchAdMobSettings, first query (useAdMob.tsx:61-63).
HookSettingsQueryReturns(res) ==
    /\ hookMounted
    /\ hookPc = "settingsQuery"
    /\ hookPc' = IF res = "throw" THEN "none" ELSE "adsQuery"
    /\ hookSettingsData' = IF res = "data"
                           THEN [enabled |-> dbEnabled, test_mode |-> dbTestMode,
                                 null |-> FALSE]
                           ELSE NoRow
    /\ UNCHANGED <<hookMounted, hookPlacement, hookConfig, hookInitialized,
                   isBannerVisible, shouldShow, hookCleanup, hookPending, sdkBanner>>
    /\ UNCHANGED <<nativeVars, purchaseVars, dbVars, adsVars, screenVars,
                   slotVars, linkVars, uiVars>>

\* fetchAdMobSettings, second query and setConfig (useAdMob.tsx:66-98); then the
\* effect of lines 284-288 calls initialize(), which calls AdMob.initialize when
\* the configuration is enabled. The slot effect runs too and returns early, for
\* isInitialized is still false.
HookAdsQueryReturns(res) ==
    /\ hookMounted
    /\ hookPc = "adsQuery"
    /\ hookPc' = "none"
    /\ LET cfg == IF res = "throw" THEN hookConfig
                  ELSE ParseSettings(hookConfig, hookSettingsData,
                                     IF res = "null" THEN NoRows
                                     ELSE [rows |-> dbAds, null |-> FALSE])
       IN /\ hookConfig' = cfg
          /\ hookPending' = IF ~cfg.null /\ cfg.enabled /\ ~hookInitialized
                            THEN Append(hookPending,
                                        [call |-> "AdMob.initialize", live |-> TRUE])
                            ELSE hookPending
    /\ UNCHANGED <<hookMounted, hookPlacement, hookInitialized, isBannerVisible,
                   shouldShow, hookSettingsData, hookCleanup, sdkBanner>>
    /\ UNCHANGED <<nativeVars, purchaseVars, dbVars, adsVars, screenVars,
                   slotVars, linkVars, uiVars>>

\* An SDK call made through the hook settles. The SDK shows or hides its banner
\* whoever called; the state setters act only while the caller is mounted. After
\* setIsInitialized(true) the slot effect runs: it shows the banner and registers
\* its cleanup. isBannerVisible changing re-runs no effect.
HookSdkCallSettles(i, ok) ==
    /\ i \in DOMAIN hookPending
    /\ LET c == hookPending[i]
           rest == SubSeq(hookPending, 1, i - 1) \o
                   SubSeq(hookPending, i + 1, Len(hookPending))
           inits == ok /\ c.live /\ c.call = "AdMob.initialize"
       IN /\ sdkBanner' = IF ~ok THEN sdkBanner
                          ELSE IF c.call = "AdMob.showBanner" THEN TRUE
                          ELSE IF c.call = "AdMob.hideBanner" THEN FALSE
                          ELSE sdkBanner
          /\ isBannerVisible' = IF ~ok \/ ~c.live THEN isBannerVisible
                                ELSE IF c.call = "AdMob.showBanner" THEN TRUE
                                ELSE IF c.call = "AdMob.hideBanner" THEN FALSE
                                ELSE isBannerVisible
          /\ hookInitialized' = (hookInitialized \/ inits)
          /\ IF inits /\ ~hookInitialized
             THEN /\ hookPending' = rest \o HookCleanupCalls \o
                                    (IF EffectShows(hookConfig, TRUE, hookPlacement)
                                     THEN HookShowCalls(hookConfig, TRUE, hookPlacement)
                                     ELSE <<>>)
                  /\ shouldShow' = (shouldShow \/ EffectShows(hookConfig, TRUE, hookPlacement))
                  /\ hookCleanup' = IF ~EffectRuns(hookConfig, TRUE) THEN "none"
                                    ELSE IF isBannerVisible THEN "visible" ELSE "hidden"
             ELSE /\ hookPending' = rest
                  /\ UNCHANGED <<shouldShow, hookCleanup>>
    /\ UNCHANGED <<hookMounted, hookPlacement, hookConfig, hookPc, hookSettingsData>>
    /\ UNCHANGED <<nativeVars, purchaseVars, dbVars, adsVars, screenVars,
                   slotVars, linkVars, uiVars>>

\* The parent passes another placement: the old cleanup runs, then the effect
\* runs again in the current render.
HookPropsChange(pl) ==
    /\ hookMounted
    /\ pl # hookPlacement
    /\ Len(hookPending) + 2 <= MaxPending
    /\ hookPlacement' = pl
    /\ hookPending' = hookPending \o HookCleanupCalls \o
                      (IF EffectShows(hookConfig, hookInitialized, pl)
                       THEN HookShowCalls(hookConfig, hookInitialized, pl)
                       ELSE <<>>)
    /\ shouldShow' = (shouldShow \/ EffectShows(hookConfig, hookInitialized, pl))
    /\ hookCleanup' = IF ~EffectRuns(hookConfig, hookInitialized) THEN "none"
                      ELSE IF isBannerVisible THEN "visible" ELSE "hidden"
    /\ UNCHANGED <<hookMounted, hookConfig, hookInitialized, isBannerVisible, hookPc,
                   hookSettingsData, sdkBanner>>
    /\ UNCHANGED <<nativeVars, purchaseVars, dbVars, adsVars, screenVars,
                   slotVars, linkVars, uiVars>>

\* The slot unmounts: the registered cleanup runs, the hook state is gone, the
\* calls in flight go on without their caller.
HookSlotUnmount ==
    /\ hookMounted
    /\ hookMounted' = FALSE
    /\ hookPending' = Orphaned(hookPending \o HookCleanupCalls)
    /\ hookConfig' = NoSettings
    /\ hookInitialized' = FALSE
    /\ isBannerVisible' = FALSE
    /\ shouldShow' = FALSE
    /\ hookPc' = "none"
    /\ hookSettingsData' = NoRow
    /\ hookCleanup' = "none"
    /\ UNCHANGED <<hookPlacement, sdkBanner>>
    /\ UNCHANGED <<nativeVars, purchaseVars, dbVars, adsVars, screenVars,
                   slotVars, linkVars, uiVars>>

InitHook ==
    /\ hookMounted = FALSE
    /\ hookPlacement = "watch_bottom_banner"
    /\ hookConfig = NoSettings
    /\ hookInitialized = FALSE
    /\ isBannerVisible = FALSE
    /\ shouldShow = FALSE
    /\ hookPc = "none"
    /\ hookSettingsData = NoRow
    /\ hookCleanup = "none"
    /\ hookPending = <<>>
    /\ sdkBanner = FALSE

NextHook ==
    \/ \E pl \in Placements : HookSlotMount(pl)
    \/ \E res \in QueryResults : HookSettingsQueryReturns(res)
    \/ \E res \in QueryResults : HookAdsQueryReturns(res)
    \/ \E i \in 1..MaxPending, ok \in BOOLEAN : HookSdkCallSettles(i, ok)
    \/ \E pl \in Placements : HookPropsChange(pl)
    \/ HookSlotUnmount

(***************************************************************************)
(* The OAuth deep link listener (src/src/hooks/useAuth.tsx, 52-88)          *)
(***************************************************************************)

MaxParams == 2

NoToken == "null"

\* A url is whether it contains 'auth/callback', and its query and fragment, each
\* a sequence of name=value parameters in the order written.
ParamNames == {"access_token", "refresh_token", "provider_refresh_token"}
ParamValues == {"", "tokA", "tokB"}
Params == [name : ParamNames, value : ParamValues]
ParamLists == UNION {[1..n -> Params] : n \in 0..MaxParams}
Urls == [callback : BOOLEAN, query : ParamLists, hash : ParamLists]

First(S) == CHOOSE i \in S : \A j \in S : i <= j

\* urlObj.searchParams.get(name): the value of the first parameter of that name.
SearchGet(query, name) ==
    LET hits == {i \in DOMAIN query : query[i].name = name}
    IN IF hits = {} THEN NoToken ELSE query[First(hits)].value

\* The text name= occurs in the parameter name=value written as "<p.name>=...":
\* at its start, or inside a longer name that ends with it.
TextHasName(paramName, name) ==
    \/ paramName = name
    \/ paramName = "provider_" \o name

\* A fragment match anchored to whole parameter names.
HashMatch_WholeName(hash, name) == SearchGet(hash, name)

\* urlObj.hash?.match(/name=([^&]*)/)?.[1]: the regular expression is not anchored,
\* so it takes the first place in the fragment where the text name= occurs.
HashMatch(hash, name) ==
    LET hits == {i \in DOMAIN hash : TextHasName(hash[i].name, name)}
    IN IF hits = {} THEN NoToken ELSE hash[First(hits)].value

Falsy(v) == v = NoToken \/ v = ""

\* No event is being handled.
NoLink == [callback |-> FALSE, query |-> <<>>, hash |-> <<>>]

\* searchParams.get(name) || hash.match(...)?.[1]
ExtractToken(url, name) ==
    IF ~Falsy(SearchGet(url.query, name)) THEN SearchGet(url.query, name)
    ELSE HashMatch(url.hash, name)

\* The appUrlOpen listener up to its first await: a url containing
\* 'auth/callback' with both tokens extracted leads to supabase.auth.setSession.
AppUrlOpen(url) ==
    /\ isNative
    /\ linkPc = "idle" /\ deepLink = NoLink
    /\ deepLink' = url
    /\ LET accessToken  == ExtractToken(url, "access_token")
           refreshToken == ExtractToken(url, "refresh_token")
       IN IF url.callback /\ ~Falsy(accessToken) /\ ~Falsy(refreshToken)
          THEN /\ linkPc' = "setSession"
               /\ linkCalls' = <<[call |-> "setSession", access_token |-> accessToken,
                                  refresh_token |-> refreshToken]>>
          ELSE /\ linkPc' = "idle"
               /\ linkCalls' = <<>>
    /\ UNCHANGED <<nativeVars, purchaseVars, dbVars, adsVars, screenVars,
                   slotVars, hookVars, uiVars>>

\* An appUrlOpen event arrives with some url while no event is being handled.
ReceiveDeepLink ==
    /\ linkPc = "idle" /\ deepLink = NoLink
    /\ \E url \in Urls : AppUrlOpen(url)

\* setSession returns { error }, returns without error, or throws (caught).
SetSessionReturns(res) ==
    /\ linkPc = "setSession"
    /\ IF res = "ok"
       THEN /\ linkPc' = "Browser.close"
            /\ linkCalls' = Append(linkCalls, [call |-> "Browser.close",
                                               access_token |-> NoToken,
                                               refresh_token |-> NoToken])
       ELSE /\ linkPc' = "idle"
            /\ linkCalls' = linkCalls
    /\ UNCHANGED deepLink
    /\ UNCHANGED <<nativeVars, purchaseVars, dbVars, adsVars, screenVars,
                   slotVars, hookVars, uiVars>>

\* Browser.close settles; a rejection is caught.
BrowserCloseSettles(ok) ==
    /\ linkPc = "Browser.close"
    /\ linkPc' = "idle"
    /\ UNCHANGED <<deepLink, linkCalls>>
    /\ UNCHANGED <<nativeVars, purchaseVars, dbVars, adsVars, screenVars,
                   slotVars, hookVars, uiVars>>

\* The listener has returned; the record of the event is dropped.
LinkHandled ==
    /\ linkPc = "idle" /\ deepLink # NoLink
    /\ deepLink' = NoLink
    /\ linkCalls' = <<>>
    /\ UNCHANGED linkPc
    /\ UNCHANGED <<nativeVars, purchaseVars, dbVars, adsVars, screenVars,
                   slotVars, hookVars, uiVars>>

InitLink ==
    /\ deepLink = NoLink
    /\ linkPc = "idle"
    /\ linkCalls = <<>>

NextLink ==
    \/ ReceiveDeepLink
    \/ \E res \in {"ok", "error", "throw"} : SetSessionReturns(res)
    \/ \E ok \in BOOLEAN : BrowserCloseSettles(ok)
    \/ LinkHandled

(***************************************************************************)
(* useIPadVideoFullscreen.toggleFullscreen                                 *)
(* (src/src/hooks/useExoPlayer.tsx, 307-458)                               *)
(***************************************************************************)

MaxToggles == 2

NoToggle == [dir |-> "none"]

\* The guard reading the state as it is now.
ToggleGuard_Current(rendered, current) == current

\* toggleFullscreen is a useCallback over isTransitioning (lines 307-310, 458): the
\* guard tests the value of the render that made the callback being called.
ToggleGuard(rendered, current) == rendered

\* isFullscreen once the platform calls of a toggle have settled: entering on
\* native, a failure reaches the outer catch (setIsFullscreen(false)); entering on
\* the web, the inner catch falls back to CSS fullscreen; leaving on native ends
\* in false on both paths; leaving on the web, the flag follows the
\* fullscreenchange event, so a failed exit keeps it.
FullscreenAfter(dir, ok, before) ==
    IF dir = "enter" THEN (IF isNative THEN ok ELSE TRUE)
    ELSE (IF isNative THEN FALSE ELSE (IF ok THEN FALSE ELSE before))

\* toggleFullscreen() up to its first await: without a container, or with the
\* guard set, it returns; else it sets isTransitioning and starts the platform
\* calls for the direction its isFullscreen gives.
CallToggleFullscreen(k) ==
    /\ screenKind = "watch"
    /\ toggles[k] = NoToggle
    /\ IF ~hasContainer \/ ToggleGuard(renderedTransitioning, isTransitioning)
       THEN /\ lastToggle' = "returned"
            /\ UNCHANGED <<isTransitioning, toggles>>
       ELSE /\ lastToggle' = "started"
            /\ isTransitioning' = TRUE
            /\ toggles' = [toggles EXCEPT
                             ![k] = [dir |-> IF renderedFullscreen THEN "exit" ELSE "enter"]]
    /\ UNCHANGED <<hasContainer, renderedTransitioning, renderedFullscreen>>
    /\ UNCHANGED <<nativeVars, purchaseVars, dbVars, adsVars, screenVars, slotVars,
                   hookVars, linkVars, layoutVars, cellVars, pageVars>>

\* React renders the player again: toggleFullscreen is made anew over the current
\* state.
RenderPlayer ==
    /\ screenKind = "watch"
    /\ <<renderedTransitioning, renderedFullscreen>> # <<isTransitioning, playerIsFullscreen>>
    /\ renderedTransitioning' = isTransitioning
    /\ renderedFullscreen' = playerIsFullscreen
    /\ lastToggle' = "none"
    /\ UNCHANGED <<hasContainer, isTransitioning, toggles>>
    /\ UNCHANGED <<nativeVars, purchaseVars, dbVars, adsVars, screenVars, slotVars,
                   hookVars, linkVars, layoutVars, cellVars, pageVars>>

\* The platform calls of a toggle have settled: setIsFullscreen, whose effect
\* publishes the flag, and in the finally block setIsTransitioning(false).
ToggleSettles(k, ok) ==
    /\ toggles[k] # NoToggle
    /\ LET fs == FullscreenAfter(toggles[k].dir, ok, playerIsFullscreen)
       IN /\ playerIsFullscreen' = fs
          /\ globalIsFullscreen' = IF fs # playerIsFullscreen THEN fs ELSE globalIsFullscreen
          /\ subscriberValue' = IF fs # playerIsFullscreen THEN fs ELSE subscriberValue
          /\ globalOwner' = IF fs # playerIsFullscreen THEN "current" ELSE globalOwner
    /\ isTransitioning' = FALSE
    /\ toggles' = [toggles EXCEPT ![k] = NoToggle]
    /\ lastToggle' = "none"
    /\ UNCHANGED <<hasContainer, renderedTransitioning, renderedFullscreen>>
    /\ UNCHANGED <<screenKind, screenEpoch, cacheOwner, initOwner, crossRead>>
    /\ UNCHANGED <<nativeVars, purchaseVars, dbVars, adsVars, slotVars, hookVars, linkVars,
                   layoutVars, cellVars, pageVars>>

InitToggle ==
    /\ hasContainer \in BOOLEAN
    /\ isTransitioning = FALSE
    /\ renderedTransitioning = FALSE
    /\ renderedFullscreen = FALSE
    /\ toggles = [k \in 1..MaxToggles |-> NoToggle]
    /\ lastToggle = "none"

NextToggle ==
    \/ \E k \in 1..MaxToggles : CallToggleFullscreen(k)
    \/ RenderPlayer
    \/ \E k \in 1..MaxToggles, ok \in BOOLEAN : ToggleSettles(k, ok)

(***************************************************************************)
(* Layout and the auth context                                             *)
(* (src/src/components/Layout.tsx, src/src/hooks/useAuth.tsx)              *)
(***************************************************************************)

\* The gate without the guest test.
LayoutRender_NoGuestGate(loading, u, guest, small) ==
    IF loading THEN "spinner"
    ELSE IF small \/ isNative THEN "content-mobile" ELSE "content-desktop"

\* Layout's render, lines 115-129: the spinner while loading, nothing without a
\* user and without guest mode, else the page inside the mobile or desktop frame.
LayoutRender(loading, u, guest, small) ==
    IF loading THEN "spinner"
    ELSE IF ~u /\ ~guest THEN "nothing"
    ELSE IF small \/ isNative THEN "content-mobile" ELSE "content-desktop"

\* The effect of lines 70-75 navigating without waiting for loading to end.
ShouldRedirect_WhileLoading(loading, u, guest) == ~u /\ ~guest

\* Layout's effect, lines 70-75: navigate('/auth')
ShouldRedirect(loading, u, guest) == ~loading /\ ~u /\ ~guest

ContentViews == {"content-mobile", "content-desktop"}

\* Layout renders for the given auth state and its effects run: the redirect, and
\* the wallet effect (lines 77-93), which queries for a user and sets 0 without.
LayoutCommit(loading, u, guest, userChanged) ==
    /\ layoutView' = LayoutRender(loading, u, guest, compact)
    /\ IF ShouldRedirect(loading, u, guest)
       THEN route' = "/auth" /\ lastNavigate' = "/auth"
       ELSE route' = "page" /\ lastNavigate' = "none"
    /\ layoutFetch' = IF userChanged THEN u ELSE layoutFetch
    /\ layoutWallet' = IF userChanged /\ ~u THEN 0 ELSE layoutWallet

\* onAuthStateChange fires or getSession resolves (useAuth.tsx:37-50): user is
\* set from the session and loading ends. A mounted Layout renders again.
AuthStateArrives(u) ==
    /\ authLoading \/ u # authUser
    /\ authUser' = u
    /\ authLoading' = FALSE
    /\ IF route = "page"
       THEN LayoutCommit(FALSE, u, guestMode, u # authUser)
       ELSE /\ lastNavigate' = "none"
            /\ UNCHANGED <<route, layoutView, layoutFetch, layoutWallet>>
    /\ UNCHANGED <<guestMode, compact, signOutPc>>
    /\ UNCHANGED <<nativeVars, purchaseVars, dbVars, adsVars, screenVars, slotVars,
                   hookVars, linkVars, toggleVars, cellVars, pageVars>>

\* On the auth page (not among the sources) the visitor continues as a guest or
\* has signed in, and a route inside Layout opens: Layout mounts.
OpenPage(asGuest) ==
    /\ route = "/auth"
    /\ guestMode' = (guestMode \/ asGuest)
    /\ LayoutCommit(authLoading, authUser, guestMode', TRUE)
    /\ UNCHANGED <<authLoading, authUser, compact, signOutPc>>
    /\ UNCHANGED <<nativeVars, purchaseVars, dbVars, adsVars, screenVars, slotVars,
                   hookVars, linkVars, toggleVars, cellVars, pageVars>>

\* The wallet query of Layout returns.
LayoutWalletFetched(b, ok) ==
    /\ layoutFetch
    /\ layoutFetch' = FALSE
    /\ layoutWallet' = IF ok /\ route = "page" THEN b ELSE layoutWallet
    /\ lastNavigate' = "none"
    /\ UNCHANGED <<authLoading, authUser, guestMode, compact, route, layoutView, signOutPc>>
    /\ UNCHANGED <<nativeVars, purchaseVars, dbVars, adsVars, screenVars, slotVars,
                   hookVars, linkVars, toggleVars, cellVars, pageVars>>

\* handleSignOut up to its await.
HandleSignOut ==
    /\ route = "page" /\ layoutView \in ContentViews
    /\ signOutPc = "idle"
    /\ signOutPc' = "signOut"
    /\ lastNavigate' = "none"
    /\ UNCHANGED <<authLoading, authUser, guestMode, compact, route, layoutView,
                   layoutWallet, layoutFetch>>
    /\ UNCHANGED <<nativeVars, purchaseVars, dbVars, adsVars, screenVars, slotVars,
                   hookVars, linkVars, toggleVars, cellVars, pageVars>>

\* signOut() has returned: guestMode is removed and navigate('/auth') is called,
\* which takes Layout off the screen. A rejection leaves handleSignOut there.
SignOutReturns(ok) ==
    /\ signOutPc = "signOut"
    /\ signOutPc' = "idle"
    /\ IF ok
       THEN /\ guestMode' = FALSE
            /\ route' = "/auth"
            /\ lastNavigate' = "/auth"
            /\ layoutView' = "nothing"
       ELSE /\ lastNavigate' = "none"
            /\ UNCHANGED <<guestMode, route, layoutView>>
    /\ UNCHANGED <<authLoading, authUser, compact, layoutWallet, layoutFetch>>
    /\ UNCHANGED <<nativeVars, purchaseVars, dbVars, adsVars, screenVars, slotVars,
                   hookVars, linkVars, toggleVars, cellVars, pageVars>>

InitLayout ==
    /\ authLoading = TRUE
    /\ authUser = FALSE
    /\ guestMode \in BOOLEAN
    /\ compact \in BOOLEAN
    /\ route = "page"
    /\ layoutView = "spinner"
    /\ layoutWallet = 0
    /\ layoutFetch = FALSE
    /\ signOutPc = "idle"
    /\ lastNavigate = "none"

NextLayout ==
    \/ \E u \in BOOLEAN : AuthStateArrives(u)
    \/ \E g \in BOOLEAN : OpenPage(g)
    \/ \E b \in 0..MaxBalance, ok \in BOOLEAN : LayoutWalletFetched(b, ok)
    \/ HandleSignOut
    \/ \E ok \in BOOLEAN : SignOutReturns(ok)

(***************************************************************************)
(* The global fullscreen flag and its subscribers                          *)
(* (src/src/hooks/useFullscreenState.tsx, useExoPlayer.tsx:134-138)        *)
(***************************************************************************)

MaxSubs == 2

Subs == 1..MaxSubs

\* No setGlobalFullscreenState in this step; a publication of v is recorded as {v}.
NoPublish == {}

\* A component that is told of every publication whether registered or not.
CalledBy_Everyone(registered, i) == TRUE

\* listeners.forEach(listener => listener(value)): the listeners called are
\* those in the Set.
CalledBy(registered, i) == i \in registered

\* setGlobalFullscreenState(value): the flag is stored, then every listener in
\* the Set is called and sets its component's state.
SetGlobalFullscreenState(v) ==
    /\ globalIsFullscreen' = v
    /\ notified' = {i \in Subs : CalledBy(listeners, i)}
    /\ subValue' = [i \in Subs |-> IF CalledBy(listeners, i) THEN v ELSE subValue[i]]
    /\ lastPublish' = {v}

\* getGlobalFullscreenState()
getGlobalFullscreenState == globalIsFullscreen

\* A component using useFullscreenState renders for the first time:
\* useState(globalIsFullscreen).
SubscriberRenders(i) ==
    /\ subPhase[i] = "unmounted"
    /\ subPhase' = [subPhase EXCEPT ![i] = "rendered"]
    /\ subValue' = [subValue EXCEPT ![i] = globalIsFullscreen]
    /\ notified' = {}
    /\ lastPublish' = NoPublish
    /\ UNCHANGED listeners
    /\ UNCHANGED <<nativeVars, purchaseVars, dbVars, adsVars, screenVars, slotVars,
                   hookVars, linkVars, toggleVars, layoutVars, pageVars>>

\* Its effect runs: listeners.add(listener).
SubscriberEffect(i) ==
    /\ subPhase[i] = "rendered"
    /\ subPhase' = [subPhase EXCEPT ![i] = "subscribed"]
    /\ listeners' = listeners \cup {i}
    /\ notified' = {}
    /\ lastPublish' = NoPublish
    /\ UNCHANGED subValue
    /\ UNCHANGED <<nativeVars, purchaseVars, dbVars, adsVars, screenVars, slotVars,
                   hookVars, linkVars, toggleVars, layoutVars, pageVars>>

\* The component unmounts; the cleanup of an effect that ran deletes the listener.
SubscriberUnmounts(i) ==
    /\ subPhase[i] # "unmounted"
    /\ subPhase' = [subPhase EXCEPT ![i] = "unmounted"]
    /\ listeners' = listeners \ {i}
    /\ subValue' = [subValue EXCEPT ![i] = FALSE]
    /\ notified' = {}
    /\ lastPublish' = NoPublish
    /\ UNCHANGED <<nativeVars, purchaseVars, dbVars, adsVars, screenVars, slotVars,
                   hookVars, linkVars, toggleVars, layoutVars, pageVars>>

\* A screen with the player mounts: isFullscreen is useState(false) and the
\* effect of useExoPlayer.tsx:134-138 publishes it.
PlayerMounts ==
    /\ screenKind = "home"
    /\ screenKind' = "watch"
    /\ playerIsFullscreen' = FALSE
    /\ SetGlobalFullscreenState(FALSE)
    /\ subscriberValue' = FALSE
    /\ UNCHANGED <<listeners, subPhase>>
    /\ UNCHANGED <<dbVars, adsVars, screenEpoch, cacheOwner, initOwner, globalOwner, crossRead>>
    /\ UNCHANGED <<nativeVars, purchaseVars, slotVars, hookVars, linkVars, toggleVars,
                   layoutVars, pageVars>>

\* The player's isFullscreen changes and its effect publishes the new value.
PlayerPublishes(v) ==
    /\ screenKind = "watch"
    /\ v # playerIsFullscreen
    /\ playerIsFullscreen' = v
    /\ SetGlobalFullscreenState(v)
    /\ subscriberValue' = v
    /\ UNCHANGED <<listeners, subPhase>>
    /\ UNCHANGED <<dbVars, adsVars, screenKind, screenEpoch, cacheOwner, initOwner,
                   globalOwner, crossRead>>
    /\ UNCHANGED <<nativeVars, purchaseVars, slotVars, hookVars, linkVars, toggleVars,
                   layoutVars, pageVars>>

\* The screen with the player unmounts; the effect has no cleanup, the flag stays.
PlayerUnmounts ==
    /\ screenKind = "watch"
    /\ screenKind' = "home"
    /\ playerIsFullscreen' = FALSE
    /\ notified' = {}
    /\ lastPublish' = NoPublish
    /\ UNCHANGED <<listeners, subPhase, subValue, subscriberValue>>
    /\ UNCHANGED <<dbVars, adsVars, screenEpoch, globalIsFullscreen, cacheOwner, initOwner,
                   globalOwner, crossRead>>
    /\ UNCHANGED <<nativeVars, purchaseVars, slotVars, hookVars, linkVars, toggleVars,
                   layoutVars, pageVars>>

\* useIframeFullscreenHandler: a fullscreenchange event of the document publishes
\* whether an element is in fullscreen.
IframeFullscreenChange(v) ==
    /\ SetGlobalFullscreenState(v)
    /\ subscriberValue' = v
    /\ UNCHANGED <<listeners, subPhase>>
    /\ UNCHANGED <<dbVars, adsVars, screenKind, screenEpoch, playerIsFullscreen, cacheOwner,
                   initOwner, globalOwner, crossRead>>
    /\ UNCHANGED <<nativeVars, purchaseVars, slotVars, hookVars, linkVars, toggleVars,
                   layoutVars, pageVars>>

InitCell ==
    /\ listeners = {}
    /\ subPhase = [i \in Subs |-> "unmounted"]
    /\ subValue = [i \in Subs |-> FALSE]
    /\ notified = {}
    /\ lastPublish = NoPublish

NextCell ==
    \/ \E i \in Subs : SubscriberRenders(i)
    \/ \E i \in Subs : SubscriberEffect(i)
    \/ \E i \in Subs : SubscriberUnmounts(i)
    \/ PlayerMounts
    \/ \E v \in BOOLEAN : PlayerPublishes(v)
    \/ PlayerUnmounts
    \/ \E v \in BOOLEAN : IframeFullscreenChange(v)

InitOutcome == rpcOutcome = "none"

(***************************************************************************)
(* getAdUnit on any cache (src/unnamed/part_006:67-87, useAdMob.tsx:111-131)*)
(***************************************************************************)

MaxAds == 2

NoCall == [adType |-> "none", placement |-> NoPlacement]

AdTypesStored == {"banner", "interstitial"}

AdTypesAsked == {"banner", "interstitial", "rewarded", "native"}

\* ad_unit_id as stored: two ids and the empty string
UnitIds == {"unit-a", "unit-b", ""}

AdRows ==
    {Ad(t, pl, act, u) : t \in AdTypesStored, pl \in Placements, act \in BOOLEAN, u \in UnitIds}

AdRowLists == UNION {[1..n -> AdRows] : n \in 0..MaxAds}

\* The caches getAdUnit may find: every list of up to MaxAds rows. The queries
\* ask for active rows; getAdUnit tests is_active itself.
Caches ==
    {[enabled |-> TRUE, testMode |-> FALSE, ads |-> l, null |-> FALSE] : l \in AdRowLists}

\* fetchSettings has stored its record (part_006:54-58; setConfig in useAdMob.tsx:96-102).
CacheFilled(settings) ==
    /\ cachedSettings.null
    /\ cachedSettings' = settings
    /\ unitCall' = NoCall
    /\ unitResult' = "pending"
    /\ UNCHANGED <<isInitialized, tasks, slots, lastSdkCall, initsNotFailed, fetchEvent>>
    /\ UNCHANGED <<nativeVars, purchaseVars, dbVars, screenVars, slotVars, hookVars, linkVars,
                   toggleVars, layoutVars, cellVars, outcomeVars, gridVars>>

FillCache == \E settings \in Caches : CacheFilled(settings)

\* getAdUnit(adType, placement) is called and returns.
CallGetAdUnit(adType, placement) ==
    /\ unitCall' = [adType |-> adType, placement |-> placement]
    /\ unitResult' = getAdUnit(cachedSettings, platform, adType, placement)
    /\ UNCHANGED <<nativeVars, purchaseVars, dbVars, adsVars, screenVars, slotVars, hookVars,
                   linkVars, toggleVars, layoutVars, cellVars, outcomeVars, gridVars>>

InitUnit ==
    /\ unitCall = NoCall
    /\ unitResult = "pending"

NextUnit ==
    \/ FillCache
    \/ \E t \in AdTypesAsked, pl \in Placements \cup {NoPlacement} : CallGetAdUnit(t, pl)

(***************************************************************************)
(* The paginated grid (src/src/components/DesktopPaginatedGrid.tsx)        *)
(***************************************************************************)

MaxPage == 3

MaxFetches == 3

\* Rows of the content table for the grid's content type.
DbCount == 70

ItemsPerPageTablet == 24

ItemsPerPageDesktop == 35

\* const ITEMS_PER_PAGE = isTablet ? 24 : 35
ITEMS_PER_PAGE(tablet) == IF tablet THEN ItemsPerPageTablet ELSE ItemsPerPageDesktop

\* Math.ceil(count / perPage)
Ceil(count, perPage) == (count + perPage - 1) \div perPage

\* What a fetchContent run asks for: .range(from, to) of the page at the page size.
Request(page, tablet) == [page |-> page, tablet |-> tablet]

NoContent == [page |-> 0, tablet |-> FALSE]

\* A response is applied only when it answers what is asked now.
Applies_OnlyCurrent(req, page, tablet) == req = Request(page, tablet)

\* fetchContent after its awaits (lines 90-101): setContent and setTotalPages
\* run for every response without an error, whatever is asked by now.
Applies(req, page, tablet) == TRUE

\* The effect of lines 73-111 runs for the given page and size: setLoading(true)
\* and the query is sent.
FetchContent(page, tablet) ==
    /\ gridFetches' = gridFetches \cup {Request(page, tablet)}
    /\ gridLoading' = TRUE
    /\ gridLanded' = FALSE

\* setCurrentPage(page): the search parameter changes and the effect runs again.
SetCurrentPage(page) ==
    /\ page # currentPage
    /\ Cardinality(gridFetches) < MaxFetches
    /\ currentPage' = page
    /\ FetchContent(page, gridTablet)
    /\ UNCHANGED <<gridTablet, content, totalPages>>
    /\ UNCHANGED <<nativeVars, purchaseVars, dbVars, adsVars, screenVars, slotVars, hookVars,
                   linkVars, toggleVars, layoutVars, cellVars, outcomeVars, unitVars>>

\* The window crosses the tablet width: ITEMS_PER_PAGE changes and the effect runs again.
TabletChanges ==
    /\ Cardinality(gridFetches) < MaxFetches
    /\ gridTablet' = ~gridTablet
    /\ FetchContent(currentPage, ~gridTablet)
    /\ UNCHANGED <<currentPage, content, totalPages>>
    /\ UNCHANGED <<nativeVars, purchaseVars, dbVars, adsVars, screenVars, slotVars, hookVars,
                   linkVars, toggleVars, layoutVars, cellVars, outcomeVars, unitVars>>

\* A fetchContent run comes to its end: with the rows and the count, or in its catch.
FetchReturns(req, ok) ==
    /\ req \in gridFetches
    /\ gridFetches' = gridFetches \ {req}
    /\ IF ok /\ Applies(req, currentPage, gridTablet)
       THEN /\ content' = req
            /\ totalPages' = Ceil(DbCount, ITEMS_PER_PAGE(req.tablet))
            /\ gridLanded' = (gridLanded \/ req = Request(currentPage, gridTablet))
       ELSE UNCHANGED <<content, totalPages, gridLanded>>
    /\ gridLoading' = FALSE
    /\ UNCHANGED <<currentPage, gridTablet>>
    /\ UNCHANGED <<nativeVars, purchaseVars, dbVars, adsVars, screenVars, slotVars, hookVars,
                   linkVars, toggleVars, layoutVars, cellVars, outcomeVars, unitVars>>

\* The grid mounts on page 1 (no page parameter) and its effect sends the first query.
InitGrid ==
    /\ currentPage = 1
    /\ gridTablet \in BOOLEAN
    /\ content = NoContent
    /\ totalPages = 1
    /\ gridLoading = TRUE
    /\ gridFetches = {Request(1, gridTablet)}
    /\ gridLanded = FALSE

NextGrid ==
    \/ \E page \in 1..MaxPage : SetCurrentPage(page)
    \/ TabletChanges
    \/ \E req \in gridFetches, ok \in BOOLEAN : FetchReturns(req, ok)

Init ==
    /\ InitNative /\ InitPurchase /\ InitApp /\ InitSlot /\ InitHook /\ InitLink
    /\ InitToggle /\ InitLayout /\ InitCell /\ InitOutcome /\ InitUnit /\ InitGrid

NextNative ==
    \/ \E hasCb \in BOOLEAN : CallEnterVideoFullscreen(hasCb)
    \/ \E hasCb \in BOOLEAN : CallExitVideoFullscreen(hasCb)
    \/ \E ok \in BOOLEAN : OrientationCallback(ok)
    \/ Delay
    \/ \E importOk \in BOOLEAN, callOk \in BOOLEAN : StatusBarStep(importOk, callOk)
    \/ \E ok \in BOOLEAN : RequestFullscreen(ok)
    \/ \E ok \in BOOLEAN : RequestFullscreenFallback(ok)
    \/ \E ok \in BOOLEAN : ExitFullscreen(ok)
    \/ CallPlayWithExoPlayer
    \/ \E ok \in BOOLEAN : BrowserOpenVideo(ok)
    \/ \E res \in SignInResults : CallSignInWithGoogle(res)
    \/ \E ok \in BOOLEAN : BrowserOpenAuth(ok)
    \/ \E name \in AdmobOps : CallAdmobService(name)
    \/ \E ok \in BOOLEAN : AdmobCall(ok)

\* The native wrappers on any device, the purchase screens untouched.
InitNativeSpec ==
    /\ Init
    /\ purchaseScreen = "panel" /\ price = [p \in PlanIds |-> 1]
    /\ dbEnabled /\ dbTestMode /\ dbAds = <<>> /\ slots = 1
    /\ pluginAvailable /\ dbSlotAd = "live" /\ ~dbWebAd /\ ~slotVisible
    /\ screenKind = "home" /\ hasContainer /\ guestMode /\ compact /\ ~gridTablet

SpecNative == InitNativeSpec /\ [][NextNative]_vars

\* The purchase screens on one device.
InitPurchaseSpec ==
    /\ Init
    /\ platform = "android" /\ apis = {"std", "webkit"}
    /\ dbEnabled /\ dbTestMode /\ dbAds = <<>> /\ slots = 1
    /\ pluginAvailable /\ dbSlotAd = "live" /\ ~dbWebAd /\ ~slotVisible
    /\ screenKind = "home" /\ hasContainer /\ guestMode /\ compact /\ ~gridTablet

\* The ad service with overlapping calls, on one screen.
InitAdsSpec ==
    /\ Init
    /\ platform \in {"android", "web"} /\ apis = {"std", "webkit"}
    /\ purchaseScreen = "panel" /\ price = [p \in PlanIds |-> 1]
    /\ slots = MaxTasks
    /\ pluginAvailable /\ dbSlotAd = "live" /\ ~dbWebAd /\ ~slotVisible
    /\ screenKind = "home" /\ hasContainer /\ guestMode /\ compact /\ ~gridTablet

SpecAds == InitAdsSpec /\ [][NextAds]_vars

\* One service call at a time, while the user moves between screens.
InitScreensSpec ==
    /\ Init
    /\ platform = "android" /\ apis = {"std", "webkit"}
    /\ purchaseScreen = "panel" /\ price = [p \in PlanIds |-> 1]
    /\ dbTestMode = FALSE
    /\ slots = 1
    /\ pluginAvailable /\ dbSlotAd = "live" /\ ~dbWebAd /\ ~slotVisible
    /\ screenKind = "home" /\ hasContainer /\ guestMode /\ compact /\ ~gridTablet

SpecScreens == InitScreensSpec /\ [][NextScreens]_vars

\* The banner slot on a page that scrolls.
InitSlotSpec ==
    /\ Init
    /\ apis = {"std", "webkit"}
    /\ purchaseScreen = "panel" /\ price = [p \in PlanIds |-> 1]
    /\ dbAds = <<>> /\ slots = 1
    /\ screenKind = "home" /\ hasContainer /\ guestMode /\ compact /\ ~gridTablet

SpecSlot == InitSlotSpec /\ [][NextSlot]_vars

\* The hook-based banner slot on a native platform.
InitHookSpec ==
    /\ Init
    /\ platform \in {"android", "ios"} /\ apis = {"std", "webkit"}
    /\ purchaseScreen = "panel" /\ price = [p \in PlanIds |-> 1]
    /\ slots = 1
    /\ pluginAvailable /\ dbSlotAd = "live" /\ ~dbWebAd /\ ~slotVisible
    /\ screenKind = "home" /\ hasContainer /\ guestMode /\ compact /\ ~gridTablet

SpecHook == InitHookSpec /\ [][NextHook]_vars

\* Deep links arriving on a native platform.
InitLinkSpec ==
    /\ Init
    /\ platform \in {"android", "ios"} /\ apis = {"std", "webkit"}
    /\ purchaseScreen = "panel" /\ price = [p \in PlanIds |-> 1]
    /\ dbEnabled /\ dbTestMode /\ dbAds = <<>> /\ slots = 1
    /\ pluginAvailable /\ dbSlotAd = "live" /\ ~dbWebAd /\ ~slotVisible
    /\ screenKind = "home" /\ hasContainer /\ guestMode /\ compact /\ ~gridTablet

SpecLink == InitLinkSpec /\ [][NextLink]_vars

\* The player on the watch screen, on any platform.
InitToggleSpec ==
    /\ Init
    /\ apis = {"std", "webkit"}
    /\ purchaseScreen = "panel" /\ price = [p \in PlanIds |-> 1]
    /\ dbEnabled /\ dbTestMode /\ dbAds = <<>> /\ slots = 1
    /\ pluginAvailable /\ dbSlotAd = "live" /\ ~dbWebAd /\ ~slotVisible
    /\ screenKind = "watch" /\ guestMode /\ compact /\ ~gridTablet

SpecToggle == InitToggleSpec /\ [][NextToggle]_vars

\* Layout on any platform and width.
InitLayoutSpec ==
    /\ Init
    /\ apis = {"std", "webkit"}
    /\ purchaseScreen = "panel" /\ price = [p \in PlanIds |-> 1]
    /\ dbEnabled /\ dbTestMode /\ dbAds = <<>> /\ slots = 1
    /\ pluginAvailable /\ dbSlotAd = "live" /\ ~dbWebAd /\ ~slotVisible
    /\ screenKind = "home" /\ hasContainer /\ ~gridTablet

SpecLayout == InitLayoutSpec /\ [][NextLayout]_vars

\* The fullscreen cell, its publishers and its subscribers.
InitCellSpec ==
    /\ Init
    /\ platform = "android" /\ apis = {"std", "webkit"}
    /\ purchaseScreen = "panel" /\ price = [p \in PlanIds |-> 1]
    /\ dbEnabled /\ dbTestMode /\ dbAds = <<>> /\ slots = 1
    /\ pluginAvailable /\ dbSlotAd = "live" /\ ~dbWebAd /\ ~slotVisible
    /\ hasContainer /\ guestMode /\ compact /\ ~gridTablet

SpecCell == InitCellSpec /\ [][NextCell]_vars

\* getAdUnit on every platform.
InitUnitSpec ==
    /\ Init
    /\ apis = {"std", "webkit"}
    /\ purchaseScreen = "panel" /\ price = [p \in PlanIds |-> 1]
    /\ dbEnabled /\ dbTestMode /\ dbAds = <<>> /\ slots = 1
    /\ pluginAvailable /\ dbSlotAd = "live" /\ ~dbWebAd /\ ~slotVisible
    /\ screenKind = "home" /\ hasContainer /\ guestMode /\ compact /\ ~gridTablet

SpecUnit == InitUnitSpec /\ [][NextUnit]_vars

\* The paginated grid at either width.
InitGridSpec ==
    /\ Init
    /\ platform = "web" /\ apis = {"std", "webkit"}
    /\ purchaseScreen = "panel" /\ price = [p \in PlanIds |-> 1]
    /\ dbEnabled /\ dbTestMode /\ dbAds = <<>> /\ slots = 1
    /\ pluginAvailable /\ dbSlotAd = "live" /\ ~dbWebAd /\ ~slotVisible
    /\ screenKind = "home" /\ hasContainer /\ guestMode /\ compact

SpecGrid == InitGridSpec /\ [][NextGrid]_vars

SpecPurchase == InitPurchaseSpec /\ [][NextPurchase]_vars

(***************************************************************************)
(* Properties of the native wrappers (checked under SpecNative)            *)
(***************************************************************************)

HideCalls == {"activateImmersiveMode", "StatusBar.hide", "hideStatusBar"}
ShowCalls == {"deactivateImmersiveMode", "StatusBar.show", "showStatusBar"}
BrowserOpenCalls == {"Browser.open(fullscreen)", "Browser.open(url)"}
FallbackCalls == {"requestFullscreen()", "Browser.open(url)"}
FirstAttemptCalls == {"requestFullscreen(navigationUI:hide)", "Browser.open(fullscreen)"}

\* log positions before i whose call is in S
Earlier(i, S) == {j \in 1..(i - 1) : log[j].call \in S}

Count(S) == Cardinality({i \in DOMAIN log : log[i].call \in S})

\* C1: on a native platform enterVideoFullscreen calls in the fixed order
\* orientation-lock callback (completed) -> hideStatusBar (completed) -> fullscreen
\* request: no fullscreen request precedes the return of hideStatusBar, and with a
\* callback no status-bar call precedes the callback's normal completion.
C1_EnterOrder ==
    (opName = "enterVideoFullscreen" /\ isNative) =>
        \A i \in DOMAIN log :
            /\ log[i].call \in FsRequestCalls => Earlier(i, {"hideStatusBar"}) # {}
            /\ (log[i].call \in HideCalls /\ opHasCb) =>
                   \E j \in Earlier(i, {"onOrientationLocked"}) : log[j].ok
            /\ log[i].call = "onOrientationLocked" =>
                   Earlier(i, HideCalls \cup FsRequestCalls) = {}
            /\ log[i].call \in HideCalls => Earlier(i, FsRequestCalls) = {}

\* C1 witness: a native run with a callback went through all three calls.
C1_Witness ==
    /\ opName = "enterVideoFullscreen" /\ isNative /\ opHasCb
    /\ outcome = "returned"
    /\ \E i, j, k \in DOMAIN log :
          /\ i < j /\ j < k
          /\ log[i] = Ev("onOrientationLocked", TRUE)
          /\ log[j].call = "hideStatusBar"
          /\ log[k].call \in FsRequestCalls /\ log[k].ok

\* C2 as stated: with a callback, on every platform, each fullscreen request is
\* preceded by the completed callback.
C2_CallbackBeforeFullscreenEverywhere ==
    (opName = "enterVideoFullscreen" /\ opHasCb) =>
        \A i \in DOMAIN log :
            log[i].call \in FsRequestCalls =>
                \E j \in Earlier(i, {"onOrientationLocked"}) : log[j].ok

\* C2 amended: with a callback, on a native platform the callback has completed before
\* any immersive (status bar) call or fullscreen request; on the web the callback is
\* never invoked and only the fullscreen request is made.
C2_CallbackOnlyOnNative ==
    (opName = "enterVideoFullscreen" /\ opHasCb) =>
        /\ isNative =>
              \A i \in DOMAIN log :
                  log[i].call \in (FsRequestCalls \cup HideCalls) =>
                      \E j \in Earlier(i, {"onOrientationLocked"}) : log[j].ok
        /\ ~isNative =>
              \A i \in DOMAIN log : log[i].call \in FsRequestCalls

\* C2 witness: on the web, a call with a callback entered fullscreen.
C2_Witness ==
    /\ opName = "enterVideoFullscreen" /\ opHasCb /\ ~isNative
    /\ outcome = "returned" /\ inFullscreen
    /\ \E i \in DOMAIN log : log[i].call \in FsRequestCalls /\ log[i].ok

\* C3: on a native platform exitVideoFullscreen runs its fullscreen-exit step first,
\* then showStatusBar, and invokes the orientation-unlock callback only after
\* showStatusBar returned; the callback is invoked whether or not the exit failed.
C3_ExitOrder ==
    (opName = "exitVideoFullscreen" /\ isNative) =>
        /\ \A i \in DOMAIN log :
              /\ log[i].call \in ShowCalls =>
                     Earlier(i, FsExitCalls \cup {"exit:none"}) # {}
              /\ log[i].call = "onOrientationUnlocked" =>
                     \E j \in Earlier(i, {"showStatusBar"}) :
                         Earlier(j, FsExitCalls \cup {"exit:none"}) # {}
              /\ log[i].call \in FsExitCalls \cup {"exit:none"} => i = 1
        /\ (opPc = "done" /\ opHasCb) => Count({"onOrientationUnlocked"}) = 1

\* C3 witness: the fullscreen exit failed and the callback was still invoked.
C3_Witness ==
    /\ opName = "exitVideoFullscreen" /\ isNative /\ opHasCb /\ opPc = "done"
    /\ log[1].call \in FsExitCalls /\ ~log[1].ok
    /\ \E i \in DOMAIN log : log[i] = Ev("onOrientationUnlocked", TRUE)

\* C6: a failing collaborator never makes a wrapper throw: every wrapper operation
\* completes normally.
C6_NoExceptionEscapes == outcome # "threw"

SameFamily(c, d) ==
    \/ c = d
    \/ c \in FsRequestCalls /\ d \in FsRequestCalls
    \/ c \in BrowserOpenCalls /\ d \in BrowserOpenCalls

C5_PurchaseRpc ==
    [][\A r \in rpcInFlight' \ rpcInFlight :
          LET plan == IF r.comp = "panel" THEN selectedPlan ELSE confirmPlanDetails
              bal  == IF r.comp = "panel" THEN walletBalance ELSE pageWalletBalance
          IN /\ user # NoUser
             /\ plan \in Plans
             /\ bal >= plan.price
             /\ r.args = [p_user_id |-> user, p_plan_id |-> plan.id,
                          p_amount |-> plan.price]]_vars

\* C5 witness: after a refused attempt (insufficient balance) the balance was topped
\* up and the RPC for the more expensive plan is in flight.
C5_Witness ==
    /\ toast = "Insufficient Balance"
    /\ \E r \in rpcInFlight :
          /\ r.args.p_user_id \in Users
          /\ r.args.p_amount = r.plan.price
          /\ r.balance >= r.args.p_amount

(***************************************************************************)
(* The settings-driven ad service                                          *)
(***************************************************************************)

\* The calls that initialise the SDK or prepare or show an ad.
AdSdkCalls ==
    {"AdMob.initialize", "AdMob.showBanner", "AdMob.prepareInterstitial",
     "AdMob.showInterstitial", "AdMob.prepareRewardVideoAd", "AdMob.showRewardVideoAd"}

\* C8: while the dashboard has ads disabled (and never had them enabled in the run),
\* the ad SDK is not initialised and no banner, interstitial or rewarded prepare or
\* show call reaches it.
C8_DisabledNeverReachesSdk ==
    ~everEnabled => lastSdkCall \notin AdSdkCalls

\* C9: cachedSettings changes only in a step that completes a fetchSettings, and a
\* fetch that failed leaves the previously cached settings in place.
C9_FailedFetchKeepsCache ==
    [][/\ (cachedSettings' # cachedSettings => fetchEvent' # "none")
       /\ (fetchEvent' = "failed" => cachedSettings' = cachedSettings)]_vars

(***************************************************************************)
(* Module-level values and screens                                         *)
(***************************************************************************)

\* C10 as stated: no operation reads a module-level value that was written while
\* an earlier, since unmounted, screen was mounted.
C10_NoValueOutlivesScreen == ~crossRead

\* C10: when one screen unmounts and the next mounts, the component state starts
\* afresh (the player's isFullscreen is false, the subscriber's isFullscreen is
\* taken from the global flag), while the module-level values stay: cachedSettings
\* and isInitialized are unchanged, and globalIsFullscreen changes only by a
\* mounting player publishing its false.
C10_ModuleValuesSurviveUnmount ==
    [][screenEpoch' # screenEpoch =>
          /\ cachedSettings' = cachedSettings
          /\ isInitialized' = isInitialized
          /\ playerIsFullscreen' = FALSE
          /\ globalIsFullscreen' =
                (IF screenKind' = "watch" THEN FALSE ELSE globalIsFullscreen)
          /\ subscriberValue' \in {globalIsFullscreen, globalIsFullscreen'}]_vars

\* An ad was shown on the strength of settings cached by a screen that has
\* since unmounted.
C10_Witness ==
    /\ crossRead
    /\ cacheOwner = "earlier"
    /\ CachedEnabled(cachedSettings)
    /\ lastSdkCall = "AdMob.showBanner"
    /\ tasks[1].op = "showBannerAd"

(***************************************************************************)
(* The banner slot                                                         *)
(***************************************************************************)

\* C4: once the slot's fetches are done and no SDK call of the slot is pending, a
\* native slot with a loaded ad configuration and the plugin available has its
\* banner shown if and only if the slot is in the viewport.
C4_ShownIffInView ==
    (/\ slotMounted /\ slotIsNative /\ ~adConfig.null /\ pluginAvailable
     /\ slotPc = "none" /\ slotPending = <<>>)
        => (bannerShown <=> slotVisible)

\* C11: once the slot has unmounted and every SDK call has settled, the SDK has no
\* banner on screen.
C11_UnmountedSlotHasNoBanner ==
    (~hookMounted /\ hookPending = <<>>) => ~sdkBanner

(***************************************************************************)
(* The OAuth deep link                                                     *)
(***************************************************************************)

\* The token a url carries under a name: the parameter of exactly that name, in
\* the query or else in the fragment.
CarriedToken(url, name) ==
    IF ~Falsy(SearchGet(url.query, name)) THEN SearchGet(url.query, name)
    ELSE SearchGet(url.hash, name)

SetSessionCalls == {i \in DOMAIN linkCalls : linkCalls[i].call = "setSession"}

\* C12: for the deep link being handled, a url containing 'auth/callback' that
\* carries an access_token and a refresh_token has caused exactly one setSession
\* call, with those two tokens; any other url has caused none; and Browser.close
\* is called only after setSession.
C12_SetSessionFromDeepLink ==
    LET a == CarriedToken(deepLink, "access_token")
        r == CarriedToken(deepLink, "refresh_token")
    IN /\ IF deepLink.callback /\ ~Falsy(a) /\ ~Falsy(r)
          THEN /\ Cardinality(SetSessionCalls) = 1
               /\ \A i \in SetSessionCalls :
                     linkCalls[i].access_token = a /\ linkCalls[i].refresh_token = r
          ELSE SetSessionCalls = {}
       /\ \A i \in DOMAIN linkCalls :
             linkCalls[i].call = "Browser.close" => \E j \in SetSessionCalls : j < i

(***************************************************************************)
(* toggleFullscreen                                                        *)
(***************************************************************************)

ToggleInProgress == \E k \in 1..MaxToggles : toggles[k] # NoToggle

\* C13: a toggleFullscreen call made while a toggle is in progress and
\* isTransitioning is true returns without starting platform calls or changing
\* state; and whenever no toggle is in progress, isTransitioning is false.
C13_ToggleNotReentrant ==
    [][/\ (ToggleInProgress /\ isTransitioning /\ lastToggle' # "none")
             => (lastToggle' = "returned" /\ toggles' = toggles)
       /\ (~ToggleInProgress' => ~isTransitioning')]_vars

\* C14: of the AdMob.initialize calls made so far, at most one has not failed: a
\* second call is made only after an earlier one failed, and none after one
\* succeeded.
C14_InitializeAtMostOnce ==
    /\ initsNotFailed <= 1
    /\ (isInitialized => initsNotFailed >= 1)

(***************************************************************************)
(* Layout                                                                  *)
(***************************************************************************)

C16_ConsistentCell ==
    /\ [][\A v \in lastPublish' :
             /\ getGlobalFullscreenState' = v
             /\ notified' = listeners
             /\ \A i \in Subs : subPhase[i] # "subscribed" => i \notin notified']_vars
    /\ [](\A i \in Subs : subPhase[i] # "unmounted" => subValue[i] = globalIsFullscreen)

(***************************************************************************)
(* The VIP panel's purchase outcome                                        *)
(***************************************************************************)

\* C17: the step in which the panel's purchase RPC comes back leaves
\* processingPurchase false; when it came back with an error the panel is as
\* open as before, the selected plan is kept and the toast is the error toast;
\* when it came back without one the panel is closed, the selection is cleared,
\* and the wallet balance and membership are refetched.
C17_PurchaseOutcome ==
    [][\A r \in rpcInFlight \ rpcInFlight' :
          r.comp = "panel" =>
             /\ processingPurchase' = FALSE
             /\ rpcOutcome' = "error" =>
                   /\ panelOpen' = panelOpen
                   /\ selectedPlan' = selectedPlan
                   /\ toast' = "Failed"
             /\ rpcOutcome' = "ok" =>
                   /\ ~panelOpen'
                   /\ selectedPlan' = NoPlan
                   /\ panelRefetch'
                   /\ toast' = "VIP Activated!"]_vars

\* A purchase has failed: the panel is still open on the chosen plan with the
\* error toast and the processing flag down.
C17_Witness ==
    /\ rpcOutcome = "error"
    /\ toast = "Failed"
    /\ panelOpen
    /\ selectedPlan \in Plans
    /\ ~processingPurchase
    /\ rpcInFlight = {}

(***************************************************************************)
(* getAdUnit                                                               *)
(***************************************************************************)

\* The configured ads that getAdUnit's arguments select: active, of the asked
\* type, and at the asked placement when one is given.
C18_Matching ==
    {i \in DOMAIN cachedSettings.ads :
        /\ cachedSettings.ads[i].is_active
        /\ cachedSettings.ads[i].ad_type = unitCall.adType
        /\ unitCall.placement # NoPlacement
              => cachedSettings.ads[i].placement = unitCall.placement}

C18_NoAdsConfigured == cachedSettings.null \/ cachedSettings.ads = <<>>

C18_Default ==
    IF unitCall.adType \in {"banner", "interstitial", "rewarded"}
    THEN DefaultTestAd(platform, unitCall.adType)
    ELSE NoAdUnit

\* C18 as stated: with no ads configured getAdUnit returns the platform's
\* default test unit for banner, interstitial and rewarded and null for any
\* other type; with ads configured it returns the ad_unit_id of the first
\* matching active ad, and null exactly when there is none.
C18_GetAdUnitAsStated ==
    unitCall # NoCall =>
       IF C18_NoAdsConfigured
       THEN unitResult = C18_Default
       ELSE /\ C18_Matching = {} <=> unitResult = NoAdUnit
            /\ \A i \in C18_Matching :
                  (\A j \in C18_Matching : i <= j)
                     => unitResult = cachedSettings.ads[i].ad_unit_id

\* C18: with no ads configured getAdUnit returns the platform's default test
\* unit for banner, interstitial and rewarded and null for any other type; with
\* ads configured it returns the ad_unit_id of the first matching active ad, or
\* null when that id is empty or no ad matches, and neither a default nor the id
\* of a later ad.
C18_GetAdUnit ==
    unitCall # NoCall =>
       IF C18_NoAdsConfigured
       THEN unitResult = C18_Default
       ELSE /\ C18_Matching = {} => unitResult = NoAdUnit
            /\ \A i \in C18_Matching :
                  (\A j \in C18_Matching : i <= j)
                     => unitResult = IF cachedSettings.ads[i].ad_unit_id = "" THEN NoAdUnit
                                     ELSE cachedSettings.ads[i].ad_unit_id

\* Ads are configured, none matches the call, and the call returned null
\* although the type has a default.
C18_Witness ==
    /\ unitCall.adType = "banner"
    /\ ~C18_NoAdsConfigured
    /\ C18_Matching = {}
    /\ \E i \in DOMAIN cachedSettings.ads : ~cachedSettings.ads[i].is_active
    /\ unitResult = NoAdUnit

(***************************************************************************)
(* The paginated grid                                                      *)
(***************************************************************************)

\* C19: once no fetch is in progress and the response for the current page has
\* been applied, the grid shows the items of the current page and the page
\* count computed for it; and a response for an earlier request that arrives
\* when the current page's items are shown replaces neither.
C19_CurrentPageShown ==
    /\ []((gridFetches = {} /\ gridLanded) =>
             /\ content = Request(currentPage, gridTablet)
             /\ totalPages = Ceil(DbCount, ITEMS_PER_PAGE(gridTablet)))
    /\ [][\A req \in gridFetches \ gridFetches' :
             (gridLanded /\ content = Request(currentPage, gridTablet)
                /\ req # Request(currentPage, gridTablet))
                => (content' = content /\ totalPages' = totalPages)]_vars

====
